---- MODULE Spec2Model ----
(***************************************************************************)
(* State-machine model of src/_worker.js: the relational schema and its    *)
(* self-healing initialisation, the request router, the category / file    *)
(* handlers and the Telegram bot dialogue.                                  *)
(*                                                                         *)
(* The database is one record `db`; every handler is an action that maps   *)
(* the database before the request to the database after it.  Strings of   *)
(* the source that are not ASCII are written in ASCII here:                *)
(*   DefaultName  stands for the category name '默认分类'.                 *)
(***************************************************************************)
EXTENDS Integers, Sequences, FiniteSets, TLC

(***************************************************************************)
(* Bounds of the model.                                                    *)
(***************************************************************************)
MaxCats == 2        \* category ids handed out: catSeq <= MaxCats
MaxFiles == 1       \* file ids and storage-chat message ids handed out

(***************************************************************************)
(* Program constants.                                                      *)
(***************************************************************************)
\* Variant of maxRetries: one attempt more (C8 must tell the difference).
maxRetries_four == 3 + 1
maxRetries == 3                  \* initDatabase: const maxRetries = 3
NULL == 0                        \* SQL NULL of an INTEGER column (ids start at 1)
NoText == "NULL"                 \* SQL NULL of a TEXT column
DefaultName == "default"
Tables == {"categories", "user_settings", "files"}
\* The columns of tableStructures whose absence the model tracks.
TrackedColumns == {<<"files", "remark">>, <<"files", "mime_type">>}

VARIABLES
  db,            \* the D1 database: tables, missing columns, rows, sequences
  config,        \* the deployment: enableAuth, bucket bound or not, foreign keys
  store,         \* the storage backends: bucket keys, storage-chat messages
  now,           \* the value of Date.now()
  req,           \* the request being served by fetch(): stage, path, attempt
  initedOnce,    \* initDatabase has returned true at least once
  issued,        \* the auth_token cookies POST /login has handed out
  ev             \* the last completed operation and its response

vars == <<db, config, store, now, req, initedOnce, issued, ev>>

(***************************************************************************)
(* Rows.                                                                   *)
(***************************************************************************)
Category(id, name) == [id |-> id, name |-> name]

DefaultRows(d) == {c \in d.categories : c.name = DefaultName}
DefaultId(d) == IF DefaultRows(d) = {} THEN NULL
                ELSE (CHOOSE c \in DefaultRows(d) : TRUE).id
CatIds(d) == {c.id : c \in d.categories}

\* INSERT INTO categories (name, ...): AUTOINCREMENT id, UNIQUE name.
InsertCategory(d, name) ==
  [d EXCEPT !.categories = @ \cup {Category(d.catSeq + 1, name)},
            !.catSeq = @ + 1]

(***************************************************************************)
(* recreateAllTables: CREATE TABLE IF NOT EXISTS x3, INSERT OR IGNORE the  *)
(* default category.  `done` is the number of statements that complete     *)
(* before the store throws (4 = all of them).                               *)
(***************************************************************************)
CreateTables(d, ts) == [d EXCEPT !.tables = @ \cup ts]

recreateAllTables(d, done) ==
  LET order == <<"categories", "user_settings", "files">>
      made  == {order[i] : i \in 1..(IF done > 3 THEN 3 ELSE done)}
      d1    == CreateTables(d, made)
      d2    == IF done >= 4 /\ DefaultRows(d1) = {}
               THEN InsertCategory(d1, DefaultName) ELSE d1
  IN [ok |-> done >= 4, db |-> d2]

(***************************************************************************)
(* validateDatabaseStructure.  `fault` names the statement at which the    *)
(* store throws, if any; a fault whose statement is not executed in the    *)
(* given database has no effect.                                           *)
(***************************************************************************)
InitFaults == {"none", "connect", "connect_nst", "connect_nst0", "probe",
               "recreate0", "recreate3", "alter", "insert", "reattach"}

ReattachOrphans(d, newDefaultId) ==
  [d EXCEPT
     !.files = {IF f.category_id = NULL
                THEN [f EXCEPT !.category_id = newDefaultId] ELSE f : f \in @},
     !.user_settings = {IF u.current_category_id = NULL
                        THEN [u EXCEPT !.current_category_id = newDefaultId]
                        ELSE u : u \in @}]

validateDatabaseStructure(d, fault) ==
  IF fault = "probe" THEN [ok |-> FALSE, db |-> d]
  ELSE IF d.tables # Tables THEN
    \* a probe hits 'no such table': rebuild and return true at once
    LET r == recreateAllTables(d, CASE fault = "recreate0" -> 0
                                    [] fault = "recreate3" -> 3
                                    [] OTHER -> 4)
    IN [ok |-> r.ok, db |-> r.db]
  ELSE IF d.missing # {} /\ fault = "alter" THEN [ok |-> FALSE, db |-> d]
  ELSE
    LET d1 == [d EXCEPT !.missing = {}]      \* ALTER TABLE ... ADD COLUMN
    IN IF DefaultRows(d1) # {} THEN [ok |-> TRUE, db |-> d1]
       ELSE IF fault = "insert" THEN [ok |-> FALSE, db |-> d1]
       ELSE LET d2 == InsertCategory(d1, DefaultName)
            IN IF fault = "reattach"
                    /\ \E f \in d2.files : f.category_id = NULL
               THEN [ok |-> FALSE, db |-> d2]
               ELSE [ok |-> TRUE, db |-> ReattachOrphans(d2, DefaultId(d2))]

(***************************************************************************)
(* One iteration of the retry loop of initDatabase (lines 13-43).          *)
(*   outcome "ok"    : return true                                         *)
(*   outcome "retry" : the attempt failed; the loop waits and goes on,     *)
(*                     or leaves the loop after the last attempt           *)
(***************************************************************************)
initAttempt(d, fault) ==
  IF fault = "connect" THEN [outcome |-> "retry", db |-> d]
  ELSE IF fault = "connect_nst" THEN
    \* the error text holds 'no such table': recreateAllTables in the catch
    LET r == recreateAllTables(d, 4) IN [outcome |-> "ok", db |-> r.db]
  ELSE IF fault = "connect_nst0" THEN
    \* ... and recreateAllTables throws too (tableError is only logged)
    [outcome |-> "retry", db |-> d]
  ELSE LET v == validateDatabaseStructure(d, fault)
       IN [outcome |-> IF v.ok THEN "ok" ELSE "retry", db |-> v.db]

(***************************************************************************)
(* fetch(): the gate in front of the route handlers (lines 432-483).       *)
(***************************************************************************)
protectedPaths == {"/", "/upload", "/admin", "/create-category",
                   "/delete-category", "/update-suffix", "/delete",
                   "/delete-multiple", "/search", "/update-remark",
                   "/change-category"}
\* Variant of isPublicApi: /change-category skips initDatabase too (C9).
isPublicApi_withChangeCategory(pathname) ==
  pathname \in {"/webhook", "/config", "/bing", "/change-category"}
isPublicApi(pathname) == pathname \in {"/webhook", "/config", "/bing"}
isLoginPage(pathname) == pathname = "/login"

(***************************************************************************)
(* The auth_token cookie: base64 of the JSON {username, expiration}.  A    *)
(* request carries no cookie, one that does not decode, or a token; a      *)
(* token is whatever the client sends, made by POST /login or not.         *)
(***************************************************************************)
cookieDays == 7                  \* config.cookie
UserName == "admin"              \* env.USERNAME, where configured
Password == "secret"             \* env.PASSWORD, where configured
NoCookie == [kind |-> "none"]
Garbage == [kind |-> "garbage"]
Token(username, expiration) ==
  [kind |-> "token", username |-> username, expiration |-> expiration]

\* Variant of tokenExpired: the expiration is not looked at (C19).
tokenExpired_never(cookie) == FALSE
\* now > tokenData.expiration
tokenExpired(cookie) == now > cookie.expiration

\* authenticate() (lines 1651-1683).
authenticate(cookie) ==
  IF ~config.enableAuth THEN TRUE
  ELSE IF config.username = "" \/ config.password = "" THEN FALSE
  ELSE IF cookie.kind # "token" THEN FALSE
  ELSE IF tokenExpired(cookie) THEN FALSE
  ELSE cookie.username = config.username

needsInit(pathname) == ~isPublicApi(pathname) /\ ~isLoginPage(pathname)

Idle == [stage |-> "idle", path |-> "", method |-> "", attempt |-> 0,
         inited |-> FALSE]

Respond(op, status) == [op |-> op, status |-> status]

\* What the gate answers with: the status, and where a 302 points.
GateEv(op, status, to, pathname, method, acceptsJson, cookie) ==
  [op |-> op, status |-> status, to |-> to, path |-> pathname,
   method |-> method, acceptsJson |-> acceptsJson, cookie |-> cookie]

\* A request arrives and passes, or is stopped by, the gate (lines 428-466).
fetch_gate(pathname, method, acceptsJson, cookie) ==
  /\ req.stage = "idle"
  /\ UNCHANGED <<db, config, store, now, initedOnce, issued>>
  /\ IF config.enableAuth /\ (config.username = "" \/ config.password = "")
     THEN /\ req' = Idle
          /\ ev' = GateEv("gate", 500, "", pathname, method, acceptsJson, cookie)
     ELSE IF config.enableAuth /\ pathname \in protectedPaths
          /\ ~authenticate(cookie) /\ ~isLoginPage(pathname)
     THEN /\ req' = Idle
          /\ ev' = IF method = "POST" \/ acceptsJson
                   THEN GateEv("gate", 401, "", pathname, method, acceptsJson,
                               cookie)
                   ELSE GateEv("gate", 302, "/login", pathname, method,
                               acceptsJson, cookie)
     ELSE IF config.enableAuth /\ authenticate(cookie) /\ isLoginPage(pathname)
     THEN /\ req' = Idle
          /\ ev' = GateEv("gate", 302, "/upload", pathname, method,
                          acceptsJson, cookie)
     ELSE /\ req' = [stage |-> IF needsInit(pathname) THEN "init" ELSE "route",
                     path |-> pathname, method |-> method,
                     attempt |-> IF needsInit(pathname) THEN 1 ELSE 0,
                     inited |-> FALSE]
          /\ ev' = GateEv("accepted", 0, "", pathname, method, acceptsJson,
                          cookie)

\* initDatabase, one attempt of the loop `for (attempt = 1; attempt <= maxRetries; ...)`.
initDatabase_attempt(fault) ==
  /\ req.stage = "init"
  /\ UNCHANGED <<config, store, now, issued>>
  /\ LET r == initAttempt(db, fault)
     IN /\ db' = r.db
        /\ IF r.outcome = "ok"
           THEN /\ req' = [req EXCEPT !.stage = "route", !.inited = TRUE]
                /\ initedOnce' = TRUE
                /\ ev' = [op |-> "init", status |-> 1, attempt |-> req.attempt,
                          again |-> initedOnce]
           ELSE IF req.attempt < maxRetries
           THEN /\ req' = [req EXCEPT !.stage = "wait"]
                /\ UNCHANGED initedOnce
                /\ ev' = [op |-> "init", status |-> 0, attempt |-> req.attempt,
                          again |-> initedOnce]
           ELSE \* the loop ends, initDatabase throws, fetch answers 500
                /\ req' = Idle
                /\ UNCHANGED initedOnce
                /\ ev' = [op |-> "init", status |-> 500, attempt |-> req.attempt,
                          again |-> initedOnce]

\* The delay between two attempts has elapsed (setTimeout resolves).
initDatabase_wait ==
  /\ req.stage = "wait"
  /\ req' = [req EXCEPT !.stage = "init", !.attempt = @ + 1]
  /\ UNCHANGED <<db, config, store, now, initedOnce, issued, ev>>

(***************************************************************************)
(* Strings.  Texts are TLA+ strings; the string functions of the source    *)
(* are computed over the finite universe of texts the model uses.          *)
(***************************************************************************)
Domain == "d"
Suffixes == {"b", "a.png", "/start"}      \* texts typed as the new base name
Exts == {"png", "pdf"}
Times == 1..(MaxFiles + 1)                \* values of Date.now()
Stems == {ToString(t) \o "_a" : t \in Times} \cup {"a"} \cup Suffixes
Name(stem, ext) == stem \o "." \o ext
BaseNames == {Name(p[1], p[2]) : p \in Stems \X Exts}
Url(base) == "https://" \o Domain \o "/" \o base
Urls == {Url(b) : b \in BaseNames}

\* getFileName(url): the last segment of the path.
getFileName(url) ==
  IF url \in Urls THEN CHOOSE b \in BaseNames : Url(b) = url ELSE url
\* name.split('.').pop()
FileExt(base) == (CHOOSE p \in Stems \X Exts : Name(p[1], p[2]) = base)[2]

\* String.prototype.trim on the texts of the model.
Trim(t) == CASE t = " A " -> "A"
             [] t = "  "  -> ""
             [] OTHER     -> t
\* Variant of includesDot: the check for an extension is left out (C25).
includesDot_always(t) == TRUE
includesDot(t) == t \in BaseNames \/ t \in Urls
startsWithHttp(t) == t \in Urls \/ t = Url("none.png")

(***************************************************************************)
(* POST /create-category (handleCreateCategoryRequest).                    *)
(***************************************************************************)
NameInputs == {"", "  ", " A ", "B", DefaultName}

createCategoryRequest(d, name, fault) ==
  IF name = "" \/ Trim(name) = "" THEN [db |-> d, status |-> 400]
  ELSE IF fault THEN [db |-> d, status |-> 500]
  ELSE IF \E c \in d.categories : c.name = Trim(name)
       THEN [db |-> d, status |-> 400]
  ELSE [db |-> InsertCategory(d, Trim(name)), status |-> 1]

handleCreateCategoryRequest(name, fault) ==
  /\ LET r == createCategoryRequest(db, name, fault)
     IN /\ db' = r.db
        /\ ev' = Respond("create-category", r.status)
  /\ UNCHANGED <<config, store, now, initedOnce, issued>>

(***************************************************************************)
(* POST /delete-category (handleDeleteCategoryRequest).  `id` = 0 stands   *)
(* for a missing or non-numeric id.  `fault` names the statement at which  *)
(* the store throws.                                                       *)
(***************************************************************************)
DeleteFaults == {"none", "select", "files", "settings", "delete"}

\* Variant of Reparent: the user_settings rows are left alone (C4).
Reparent_filesOnly(d, from, to, doFiles, doSettings) ==
  [d EXCEPT
     !.files = IF doFiles
               THEN {IF f.category_id = from
                     THEN [f EXCEPT !.category_id = to] ELSE f : f \in @}
               ELSE @]
Reparent(d, from, to, doFiles, doSettings) ==
  [d EXCEPT
     !.files = IF doFiles
               THEN {IF f.category_id = from
                     THEN [f EXCEPT !.category_id = to] ELSE f : f \in @}
               ELSE @,
     !.user_settings = IF doSettings
               THEN {IF u.current_category_id = from
                     THEN [u EXCEPT !.current_category_id = to] ELSE u : u \in @}
               ELSE @]

\* Variant of isDefaultCategory: the default category is not recognised (C2).
isDefaultCategory_never(d, id) == FALSE
\* SELECT id FROM categories WHERE id = ? AND name = '...' finds a row.
isDefaultCategory(d, id) ==
  \E c \in d.categories : c.id = id /\ c.name = DefaultName
\* Variant of categoryFound: every id is taken for an existing category (C5).
categoryFound_always(d, id) == TRUE
\* SELECT name FROM categories WHERE id = ? finds a row.
categoryFound(d, id) == id \in CatIds(d)

deleteCategoryRequest(d, id, fault) ==
  IF id = 0 THEN [db |-> d, status |-> 400]
  ELSE IF fault = "select" THEN [db |-> d, status |-> 500]
  ELSE IF isDefaultCategory(d, id) THEN [db |-> d, status |-> 403]
  ELSE IF ~categoryFound(d, id) THEN [db |-> d, status |-> 404]
  ELSE
    LET d1 == IF DefaultRows(d) = {} THEN InsertCategory(d, DefaultName) ELSE d
        defaultCategoryId == DefaultId(d1)
    IN IF fault = "files" THEN [db |-> d1, status |-> 500]
       ELSE IF fault = "settings"
            THEN [db |-> Reparent(d1, id, defaultCategoryId, TRUE, FALSE),
                  status |-> 500]
       ELSE LET d2 == Reparent(d1, id, defaultCategoryId, TRUE, TRUE)
            IN IF fault = "delete" THEN [db |-> d2, status |-> 500]
               ELSE [db |-> [d2 EXCEPT !.categories =
                                          {c \in @ : c.id # id}],
                     status |-> 1]

handleDeleteCategoryRequest(id, fault) ==
  /\ LET r == deleteCategoryRequest(db, id, fault)
     IN /\ db' = r.db
        /\ ev' = [op |-> "delete-category", status |-> r.status, id |-> id,
                  files_moved |-> {f.id : f \in {g \in db.files :
                                                   g.category_id = id}},
                  users_moved |-> {u.chat_id : u \in {v \in db.user_settings :
                                                   v.current_category_id = id}}]
  /\ UNCHANGED <<config, store, now, initedOnce, issued>>

(***************************************************************************)
(* POST /change-category (handleChangeCategoryRequest): one batch of       *)
(* UPDATE files SET category_id = ? WHERE url = ?.  categoryId 0 stands    *)
(* for a falsy categoryId (bound as NULL); `noId` for an absent one.       *)
(***************************************************************************)
changeCategoryRequest(d, urls, categoryId, noId) ==
  IF urls = {} \/ noId THEN [db |-> d, status |-> 400]
  ELSE IF "files" \notin d.tables THEN [db |-> d, status |-> 500]
  ELSE IF /\ config.foreignKeys
          /\ categoryId # NULL /\ categoryId \notin CatIds(d)
          /\ \E f \in d.files : f.url \in urls
       THEN [db |-> d, status |-> 500]       \* FOREIGN KEY constraint failed
  ELSE [db |-> [d EXCEPT !.files =
                  {IF f.url \in urls
                   THEN [f EXCEPT !.category_id = categoryId] ELSE f : f \in @}],
        status |-> 1]

handleChangeCategoryRequest(urls, categoryId, noId) ==
  /\ LET r == changeCategoryRequest(db, urls, categoryId, noId)
     IN /\ db' = r.db
        /\ ev' = [op |-> "change-category", status |-> r.status,
                  urls |-> urls, counts |-> FALSE]
  /\ UNCHANGED <<config, store, now, initedOnce, issued>>

\* GET /config: answers {maxSizeMB}; touches no table.
handleConfigRequest ==
  /\ ev' = [op |-> "config", status |-> 200]
  /\ UNCHANGED <<db, config, store, now, initedOnce, issued>>

(***************************************************************************)
(* Storage backends.  store.r2 is the set of keys held by the bucket,      *)
(* store.tg the set of message ids held by the storage chat, store.tgSeq   *)
(* the last message id the chat platform handed out.                        *)
(***************************************************************************)
TgFileId(mid) == "tg" \o ToString(mid)

(***************************************************************************)
(* user_settings rows.                                                     *)
(***************************************************************************)
HasSetting(d, chat) == \E u \in d.user_settings : u.chat_id = chat
Setting(d, chat) == CHOOSE u \in d.user_settings : u.chat_id = chat
\* UPDATE user_settings SET ... WHERE chat_id = ?
UpdateSetting(d, chat, new) ==
  [d EXCEPT !.user_settings = {IF u.chat_id = chat THEN new ELSE u : u \in @}]
\* Variant of ClearWaiting: the UPDATE is left out (C21).
ClearWaiting_not(d, chat) == d
\* UPDATE user_settings SET waiting_for = NULL WHERE chat_id = ?
ClearWaiting(d, chat) ==
  IF HasSetting(d, chat)
  THEN UpdateSetting(d, chat, [Setting(d, chat) EXCEPT !.waiting_for = NoText])
  ELSE d
ClearWaitingAndEditing(d, chat) ==
  IF HasSetting(d, chat)
  THEN UpdateSetting(d, chat, [Setting(d, chat) EXCEPT !.waiting_for = NoText,
                                                       !.editing_file_id = NULL])
  ELSE d

\* handleTelegramWebhook lines 596-616: load the row of the chat or create it.
loadUserSetting(d, chat) ==
  IF HasSetting(d, chat) THEN [db |-> d, us |-> Setting(d, chat)]
  ELSE LET d1 == IF DefaultRows(d) = {} THEN InsertCategory(d, DefaultName) ELSE d
           row == [chat_id |-> chat, storage_type |-> "r2",
                   current_category_id |-> DefaultId(d1),
                   waiting_for |-> NoText, editing_file_id |-> NULL]
       IN [db |-> [d1 EXCEPT !.user_settings = @ \cup {row}], us |-> row]

\* The argument sendPanel is called with: what the menu shows.
NoPanel == <<>>
Panel(us) == <<us.storage_type, us.current_category_id>>

BotResult(d, st, panel, note) ==
  [db |-> d, store |-> st, status |-> 200, panel |-> panel, note |-> note]

(***************************************************************************)
(* Text reply while waiting_for = 'new_category' (lines 618-645).          *)
(***************************************************************************)
BotFaults == {"none", "stmt", "store"}

textNewCategory(d, st, chat, us, text, fault) ==
  LET categoryName == Trim(text)
      exists == \E c \in d.categories : c.name = categoryName
      d1 == IF exists \/ fault = "stmt" THEN d
            ELSE LET i == InsertCategory(d, categoryName)
                 IN UpdateSetting(i, chat,
                      [Setting(i, chat) EXCEPT
                         !.current_category_id = i.catSeq,
                         !.waiting_for = NoText])
      d2 == ClearWaiting(d1, chat)
      found == {c \in d2.categories : c.name = categoryName}
      us2 == [us EXCEPT !.waiting_for = NoText,
                        !.current_category_id =
                           IF categoryName # "" /\ found # {}
                           THEN (CHOOSE c \in found : TRUE).id ELSE @]
  IN BotResult(d2, st, Panel(us2),
               IF exists THEN "exists" ELSE IF fault = "stmt" THEN "failed"
               ELSE "created")

\* Variant of MatchesByText: the rows of every chat are searched (C40).
MatchesByText_anyChat(d, chat, userInput) ==
  IF startsWithHttp(userInput)
  THEN {f \in d.files : f.url = userInput}
  ELSE LET m == {f \in d.files :
                   f.file_name = userInput \/ f.url = Url(userInput)}
       IN {f \in m : \A g \in m : g.created_at <= f.created_at}
\* Variant of MatchesByText: among several name matches the oldest row (C17).
MatchesByText_oldest(d, chat, userInput) ==
  IF startsWithHttp(userInput)
  THEN {f \in d.files : f.url = userInput /\ f.chat_id = chat}
  ELSE LET m == {f \in d.files :
                   /\ f.chat_id = chat
                   /\ (f.file_name = userInput \/ f.url = Url(userInput))}
       IN {f \in m : \A g \in m : g.created_at >= f.created_at}

(***************************************************************************)
(* Lookup of a file by the text the user typed (lines 713-729, 836-856):   *)
(* a URL selects by url, a name by file_name or the tail of the url, the   *)
(* newest row first; always restricted to the rows of the chat.            *)
(***************************************************************************)
MatchesByText(d, chat, userInput) ==
  IF startsWithHttp(userInput)
  THEN {f \in d.files : f.url = userInput /\ f.chat_id = chat}
  ELSE LET m == {f \in d.files :
                   /\ f.chat_id = chat
                   /\ (f.file_name = userInput \/ f.url = Url(userInput))}
       IN {f \in m : \A g \in m : g.created_at <= f.created_at}

(***************************************************************************)
(* Text reply while waiting_for = 'delete_file_input' (lines 708-782).     *)
(* `file` is the row the SELECT returned (one of MatchesByText).           *)
(***************************************************************************)
textDeleteFile(d, st, chat, us, text, file, fault) ==
  LET d1 == ClearWaiting(d, chat)
      us1 == [us EXCEPT !.waiting_for = NoText]
      userInput == Trim(text)
  IN IF ~startsWithHttp(userInput) /\ ~includesDot(userInput)
     THEN BotResult(d1, st, Panel(us1), "need-extension")
     ELSE IF MatchesByText(d1, chat, userInput) = {}
     THEN BotResult(d1, st, Panel(us1), "not-found")
     ELSE
       LET st1 == IF /\ file.storage_type = "r2" /\ config.bucket
                     /\ fault # "store"
                  THEN [st EXCEPT !.r2 = @ \ {file.fileId}]
                  ELSE IF /\ file.storage_type = "telegram"
                          /\ file.message_id \notin {0, -1}
                          /\ fault # "store"
                  THEN [st EXCEPT !.tg = @ \ {file.message_id}]
                  ELSE st
       IN IF fault = "stmt"
          THEN BotResult(d1, st1, Panel(us1), "error")
          ELSE BotResult([d1 EXCEPT !.files = {f \in @ : f.id # file.id}],
                         st1, Panel(us1), "deleted")

(***************************************************************************)
(* Text reply while waiting_for = 'edit_suffix_input_file' (lines 834-889).*)
(***************************************************************************)
\* Variant of textRenameTarget: the chosen file is kept under 'new_suffix',
\* the state the branch of line 646 waits for (C36).
textRenameTarget_newSuffix(d, st, chat, us, text, file) ==
  LET userInput == Trim(text)
      cleared == ClearWaitingAndEditing(d, chat)
      us0 == [us EXCEPT !.waiting_for = NoText, !.editing_file_id = NULL]
  IN IF ~startsWithHttp(userInput) /\ ~includesDot(userInput)
     THEN BotResult(cleared, st, Panel(us0), "need-extension")
     ELSE IF MatchesByText(d, chat, userInput) = {}
     THEN BotResult(cleared, st, Panel(us0), "not-found")
     ELSE BotResult(UpdateSetting(d, chat,
                      [Setting(d, chat) EXCEPT
                         !.waiting_for = "new_suffix",
                         !.editing_file_id = file.id]),
                    st, NoPanel, "found")
textRenameTarget(d, st, chat, us, text, file) ==
  LET userInput == Trim(text)
      cleared == ClearWaitingAndEditing(d, chat)
      us0 == [us EXCEPT !.waiting_for = NoText, !.editing_file_id = NULL]
  IN IF ~startsWithHttp(userInput) /\ ~includesDot(userInput)
     THEN BotResult(cleared, st, Panel(us0), "need-extension")
     ELSE IF MatchesByText(d, chat, userInput) = {}
     THEN BotResult(cleared, st, Panel(us0), "not-found")
     ELSE BotResult(UpdateSetting(d, chat,
                      [Setting(d, chat) EXCEPT
                         !.waiting_for = "edit_suffix_input_new",
                         !.editing_file_id = file.id]),
                    st, NoPanel, "found")

(***************************************************************************)
(* The rename of lines 894-935 (and of the 'new_suffix' branch, lines      *)
(* 650-691, which leaves file_name alone: withName = FALSE).               *)
(*   fault "get"    : bucket.get throws                                    *)
(*   fault "put"    : bucket.put throws, storeFile falls back to the chat  *)
(*   fault "put_tg" : bucket.put throws and the fallback throws too        *)
(*   fault "del"    : bucket.delete throws (deleteFile returns false)      *)
(*   fault "stmt"   : UPDATE files throws                                  *)
(***************************************************************************)
RenameFaults == {"none", "get", "put", "put_tg", "del", "stmt"}

SetNames(d, file, fileId, url, fileName, withName) ==
  [d EXCEPT !.files =
     {IF f.id = file.id
      THEN [f EXCEPT !.fileId = fileId, !.url = url,
                     !.file_name = IF withName THEN fileName ELSE @]
      ELSE f : f \in @}]

\* Variant of deleteFile: the old object is never removed (C14).
deleteFile_never(st, fileId, fault) == st
\* deleteFile (lines 4280-4290): false when bucket.delete throws.
deleteFile(st, fileId, fault) ==
  IF config.bucket /\ fault # "del" THEN [st EXCEPT !.r2 = @ \ {fileId}]
  ELSE st

\* The storage and UPDATE steps of a rename of `file` to newFileName.
renameTo(d, st, file, newFileName, withName, fault) ==
  LET fileUrl == Url(newFileName)
      urlOnly == SetNames(d, file, file.fileId, fileUrl, newFileName, withName)
  IN IF fault = "stmt" THEN
       \* every UPDATE files throws; the object store has already been changed
       IF file.storage_type = "r2" /\ config.bucket /\ file.fileId \in st.r2
       THEN [db |-> d, store |-> [st EXCEPT !.r2 = (@ \cup {newFileName})
                                                    \ {file.fileId}],
             ok |-> FALSE]
       ELSE [db |-> d, store |-> st, ok |-> FALSE]
     ELSE IF file.storage_type = "r2" /\ config.bucket THEN
       IF fault = "get" \/ file.fileId \notin st.r2
       THEN [db |-> urlOnly, store |-> st, ok |-> TRUE]
       ELSE IF fault = "put_tg"
       THEN [db |-> urlOnly, store |-> st, ok |-> TRUE]
       ELSE
         LET st1 == IF fault = "put"
                    THEN [st EXCEPT !.tg = @ \cup {st.tgSeq + 1},
                                    !.tgSeq = @ + 1]
                    ELSE [st EXCEPT !.r2 = @ \cup {newFileName}]
             st2 == deleteFile(st1, file.fileId, fault)
         IN [db |-> SetNames(d, file, newFileName, fileUrl, newFileName, withName),
             store |-> st2, ok |-> TRUE]
     ELSE [db |-> urlOnly, store |-> st, ok |-> TRUE]

renameFile(d, st, file, newSuffix, withName, fault) ==
  renameTo(d, st, file, Name(newSuffix, FileExt(getFileName(file.url))),
           withName, fault)

\* Text reply while waiting_for = 'edit_suffix_input_new' (lines 890-950).
textRename(d, st, chat, us, text, withName, fault) ==
  LET newSuffix == Trim(text)
      hit == {f \in d.files : f.id = us.editing_file_id}
      r == IF hit = {} THEN [db |-> d, store |-> st, ok |-> FALSE]
           ELSE renameFile(d, st, CHOOSE f \in hit : TRUE, newSuffix,
                           withName, fault)
      us1 == [us EXCEPT !.waiting_for = NoText, !.editing_file_id = NULL]
  IN BotResult(ClearWaitingAndEditing(r.db, chat), r.store, Panel(us1),
               IF hit = {} THEN "gone" ELSE IF r.ok THEN "renamed" ELSE "failed")

(***************************************************************************)
(* handleMediaUpload (lines 1364-1635).  contentLength = 0 stands for a    *)
(* download response without a Content-Length header.                      *)
(*   fault "getFile"    : getFile answers ok:false, or the download fails  *)
(*   fault "put"        : bucket.put throws                                *)
(*   fault "send"       : the first send is rejected                       *)
(*   fault "send_retry" : the first send and the sendDocument retry fail   *)
(*   fault "send_noid"  : the send is accepted, its answer has no file_id  *)
(*   fault "insert"     : INSERT INTO files throws                         *)
(***************************************************************************)
maxSizeMB == 20
SizeLimit == maxSizeMB * 1024 * 1024
MediaFaults == {"none", "getFile", "put", "send", "send_retry", "send_noid",
                "insert"}

\* The file_id the chat platform answers a send with ("" when the answer
\* carries none), and `if (!fileId) throw`.
sentFileId(mid, fault) == IF fault = "send_noid" THEN "" ELSE TgFileId(mid)
\* Variant of noFileId: an answer without file_id is not noticed (C12).
noFileId_unchecked(fileId) == FALSE
noFileId(fileId) == fileId = ""

\* Variant of lengthTooLarge: the Content-Length is never looked at (C10).
lengthTooLarge_never(contentLength) == FALSE
\* contentLength && parseInt(contentLength) > config.maxSizeMB * 1024 * 1024
lengthTooLarge(contentLength) == contentLength # 0 /\ contentLength > SizeLimit
\* file.size > config.maxSizeMB * 1024 * 1024
sizeTooLarge(size) == size > SizeLimit

\* The send method chosen from the MIME main type (lines 1491-1503).
sendMethod(fileName) ==
  IF FileExt(fileName) = "png" THEN "sendPhoto" ELSE "sendDocument"

FileRow(d, url, fileId, mid, fileName, size, storageType, categoryId, chat) ==
  [id |-> d.fileSeq + 1, url |-> url, fileId |-> fileId, message_id |-> mid,
   created_at |-> now, file_name |-> fileName, file_size |-> size,
   storage_type |-> storageType, category_id |-> categoryId,
   chat_id |-> chat, remark |-> NoText]

InsertFile(d, row) ==
  [d EXCEPT !.files = @ \cup {row}, !.fileSeq = @ + 1]

\* The INSERT is refused when the store enforces the FOREIGN KEY of
\* files.category_id and the category does not exist.
ForeignKeyFails(d, categoryId) ==
  config.foreignKeys /\ categoryId # NULL /\ categoryId \notin CatIds(d)

UploadResult(d, st, note) == [db |-> d, store |-> st, note |-> note]

handleMediaUpload(d, st, chat, us, fileName, contentLength, fault) ==
  LET needDefault == us.current_category_id = NULL
      d1 == IF needDefault /\ DefaultRows(d) = {}
            THEN InsertCategory(d, DefaultName) ELSE d
      categoryId == IF needDefault THEN DefaultId(d1) ELSE us.current_category_id
      storageType == us.storage_type
      key == ToString(now) \o "_" \o fileName
      finalUrl == Url(key)
  IN IF fault = "getFile" THEN UploadResult(d1, st, "failed")
     ELSE IF lengthTooLarge(contentLength)
     THEN UploadResult(d1, st, "too-large")
     ELSE IF storageType = "r2" /\ config.bucket THEN
       IF fault = "put" THEN UploadResult(d1, st, "failed")
       ELSE LET st1 == [st EXCEPT !.r2 = @ \cup {key}]
            IN IF fault = "insert" \/ ForeignKeyFails(d1, categoryId)
               THEN UploadResult(d1, st1, "failed")
               ELSE UploadResult(
                      InsertFile(d1, FileRow(d1, finalUrl, key, -1, fileName,
                                   contentLength, storageType, categoryId, chat)),
                      st1, "uploaded")
     ELSE
       IF \/ fault = "send_retry"
          \/ (fault = "send" /\ sendMethod(fileName) = "sendDocument")
       THEN UploadResult(d1, st, "failed")
       ELSE LET mid == st.tgSeq + 1
                st1 == [st EXCEPT !.tg = @ \cup {mid}, !.tgSeq = mid]
                fileId == sentFileId(mid, fault)
            IN IF \/ noFileId(fileId)
                  \/ fault = "insert" \/ ForeignKeyFails(d1, categoryId)
               THEN UploadResult(d1, st1, "failed")
               ELSE UploadResult(
                      InsertFile(d1, FileRow(d1, finalUrl, fileId, mid,
                                   fileName, contentLength, storageType,
                                   categoryId, chat)),
                      st1, "uploaded")

(***************************************************************************)
(* handleCallbackQuery (lines 1085-1363).  The button cache of `config`    *)
(* is built empty by every fetch() (lines 406-427), so no entry is ever    *)
(* found in it.                                                            *)
(***************************************************************************)
SetCategoryCb(n) == "set_category_" \o ToString(n)
CallbackData == {"switch_storage", "list_categories", "create_category",
                 "back_to_panel", "r2_stats", "recent_files", "edit_suffix",
                 "edit_suffix_input", "delete_file_input",
                 "delete_file_confirm_1", "delete_file_do_1"}
                \cup {SetCategoryCb(n) : n \in 1..(MaxCats + 1)}
isSetCategory(cbData) == \E n \in 1..(MaxCats + 1) : cbData = SetCategoryCb(n)
setCategoryId(cbData) == CHOOSE n \in 1..(MaxCats + 1) : cbData = SetCategoryCb(n)

\* Lines 1096-1107: does this callback keep the pending expectation?
keepsWaiting(us, cbData) ==
  \/ us.waiting_for = NoText
  \/ cbData = "delete_file_do_1"
  \/ (us.waiting_for = "new_category" /\ cbData = "create_category")
  \/ (us.waiting_for = "delete_file_input" /\ cbData = "delete_file_input")
  \/ (us.waiting_for = "edit_suffix_input_file" /\ cbData = "edit_suffix_input")
  \/ (us.waiting_for = "edit_suffix_input_new" /\ us.editing_file_id # NULL)

handleCallbackQuery(d, st, chat, us0, cbData) ==
  LET d0 == IF keepsWaiting(us0, cbData) THEN d ELSE ClearWaitingAndEditing(d, chat)
      us == IF keepsWaiting(us0, cbData) THEN us0
            ELSE [us0 EXCEPT !.waiting_for = NoText, !.editing_file_id = NULL]
      row == Setting(d0, chat)
  IN CASE cbData = "switch_storage" ->
            LET newStorageType == IF us.storage_type = "r2" THEN "telegram" ELSE "r2"
            IN BotResult(UpdateSetting(d0, chat,
                           [row EXCEPT !.storage_type = newStorageType]),
                         st, Panel([us EXCEPT !.storage_type = newStorageType]),
                         "switched")
       [] cbData = "create_category" ->
            BotResult(UpdateSetting(d0, chat,
                        [row EXCEPT !.waiting_for = "new_category"]),
                      st, NoPanel, "prompt")
       [] isSetCategory(cbData) ->
            LET categoryId == setCategoryId(cbData)
            IN IF ForeignKeyFails(d0, categoryId)
               THEN BotResult(d0, st, NoPanel, "error")
               ELSE BotResult(UpdateSetting(d0, chat,
                                [row EXCEPT !.current_category_id = categoryId]),
                              st,
                              Panel([us EXCEPT !.current_category_id = categoryId]),
                              "category-set")
       [] cbData = "back_to_panel" ->
            BotResult(IF us.waiting_for # NoText
                      THEN ClearWaitingAndEditing(d0, chat) ELSE d0,
                      st,
                      Panel([us EXCEPT !.waiting_for = NoText,
                                       !.editing_file_id =
                                          IF us.waiting_for # NoText THEN NULL ELSE @]),
                      "panel")
       [] cbData = "edit_suffix_input" ->
            BotResult(UpdateSetting(d0, chat,
                        [row EXCEPT !.waiting_for = "edit_suffix_input_file"]),
                      st, NoPanel, "prompt")
       [] cbData = "delete_file_input" ->
            BotResult(UpdateSetting(d0, chat,
                        [row EXCEPT !.waiting_for = "delete_file_input"]),
                      st, NoPanel, "prompt")
       [] OTHER -> BotResult(d0, st, NoPanel, "shown")

(***************************************************************************)
(* handleTelegramWebhook (lines 562-964).  An update is a text message, a  *)
(* media message or a callback query, from a private or a group chat.      *)
(***************************************************************************)
AllowedChats == {"c1"}                   \* config.tgChatId
Ignored(note) == [status |-> 200, panel |-> NoPanel, note |-> note]

\* Variant of pendingReply: any message counts as the reply (C27).
pendingReply_anyMessage(us, hasText) == us.waiting_for # NoText
\* `userSetting.waiting_for === ... && update.message.text`: the branches of
\* a pending state are taken by messages that carry text only.
pendingReply(us, hasText) == us.waiting_for # NoText /\ hasText

\* The text branches, in the order of the source.
handleText(d, st, chat, us, text, file, fault) ==
  IF us.waiting_for = "new_category"
  THEN textNewCategory(d, st, chat, us, text, fault)
  ELSE IF us.waiting_for = "new_suffix" /\ us.editing_file_id # NULL
  THEN textRename(d, st, chat, us, text, FALSE, fault)
  ELSE IF us.waiting_for = "delete_file_input"
  THEN textDeleteFile(d, st, chat, us, text, file, fault)
  ELSE IF text = "/start" THEN BotResult(d, st, Panel(us), "menu")
  ELSE IF us.waiting_for = "edit_suffix_input_file"
  THEN textRenameTarget(d, st, chat, us, text, file)
  ELSE IF us.waiting_for = "edit_suffix_input_new" /\ us.editing_file_id # NULL
  THEN textRename(d, st, chat, us, text, TRUE, fault)
  ELSE BotResult(d, st, NoPanel, "hint")

NoFile == [id |-> NULL]
Candidates(d, chat, text) ==
  IF MatchesByText(d, chat, Trim(text)) = {} THEN {NoFile}
  ELSE MatchesByText(d, chat, Trim(text))

\* The first statements of the handler need these tables (else the outer
\* catch answers 500).
WebhookTablesOk(d, chat) ==
  /\ "user_settings" \in d.tables
  /\ (HasSetting(d, chat) \/ "categories" \in d.tables)

WebhookEv(chat, kind, arg, was, r) ==
  [op |-> "webhook", status |-> r.status, chat |-> chat, kind |-> kind,
   arg |-> arg, was |-> was, note |-> r.note, panel |-> r.panel]

\* A text message from an allowed private chat.
webhookText(chat, text, fault) ==
  /\ chat \in AllowedChats
  /\ UNCHANGED <<config, now, initedOnce, issued>>
  /\ IF ~WebhookTablesOk(db, chat)
     THEN /\ UNCHANGED <<db, store>>
          /\ ev' = WebhookEv(chat, "text", text, NoText,
                             [status |-> 500, note |-> "error", panel |-> NoPanel])
     ELSE LET l == loadUserSetting(db, chat)
          IN \E file \in Candidates(l.db, chat, text) :
               LET r == handleText(l.db, store, chat, l.us, text, file, fault)
               IN /\ db' = r.db
                  /\ store' = r.store
                  /\ ev' = WebhookEv(chat, "text", text, l.us.waiting_for, r)

\* A media message (photo, document, ...) from an allowed private chat:
\* `else if (update.message.photo || ...)` is reached whatever waiting_for is,
\* because the three waiting_for branches before it require message.text.
\* The download answers `size` bytes, with a Content-Length header or not.
webhookMedia(chat, fileName, size, hasLength, fault) ==
  /\ chat \in AllowedChats
  /\ WebhookTablesOk(db, chat) /\ db.tables = Tables
  /\ UNCHANGED <<config, initedOnce, issued>>
  /\ LET l == loadUserSetting(db, chat)
         contentLength == IF hasLength THEN size ELSE 0
         r == IF pendingReply(l.us, FALSE)
              THEN LET t == handleText(l.db, store, chat, l.us, "", NoFile,
                                       "none")
                   IN UploadResult(t.db, t.store, t.note)
              ELSE handleMediaUpload(l.db, store, chat, l.us, fileName,
                                     contentLength, fault)
     IN /\ db' = r.db
        /\ store' = r.store
        /\ now' = IF r.note = "uploaded" THEN now + 1 ELSE now
        /\ ev' = [op |-> "webhook", status |-> 200, chat |-> chat,
                  kind |-> "media", arg |-> fileName, was |-> l.us.waiting_for,
                  note |-> r.note, panel |-> NoPanel,
                  size |-> size, contentLength |-> contentLength,
                  storage_type |-> l.us.storage_type, fault |-> fault]

\* A callback query from an allowed chat.
webhookCallback(chat, cbData) ==
  /\ chat \in AllowedChats
  /\ WebhookTablesOk(db, chat) /\ db.tables = Tables
  /\ UNCHANGED <<config, now, initedOnce, issued>>
  /\ LET l == loadUserSetting(db, chat)
         r == handleCallbackQuery(l.db, store, chat, l.us, cbData)
     IN /\ db' = r.db
        /\ store' = r.store
        /\ ev' = WebhookEv(chat, "callback", cbData, l.us.waiting_for, r)

\* Lines 567-594: a group or supergroup message, an update that is neither
\* a message nor a callback query, or a chat outside the allow-list.
webhookIgnored(chat, chatType, kind) ==
  /\ \/ kind = "none"
     \/ (kind = "text" /\ chatType = "group")
     \/ chat \notin AllowedChats
  /\ ev' = WebhookEv(chat, kind, chatType, NoText, Ignored("ignored"))
  /\ UNCHANGED <<db, config, store, now, initedOnce, issued>>

(***************************************************************************)
(* POST /upload (handleUploadRequest, lines 1847-1987).  category 0 stands *)
(* for an empty `category` form field.                                     *)
(*   fault "put"        : bucket.put throws                                *)
(*   fault "send"       : the first send is rejected                       *)
(*   fault "send_retry" : the first send and the sendDocument retry fail   *)
(*   fault "send_noid"  : the send is accepted, its answer has no file_id  *)
(*   fault "insert"     : INSERT INTO files throws                         *)
(***************************************************************************)
UploadFaults == {"none", "put", "send", "send_retry", "send_noid", "insert"}
WebChat == "c1"                          \* config.tgChatId[0]

\* Lines 1887-1896: GIF images go out with sendDocument on this path.
webSendMethod(fileName) ==
  IF FileExt(fileName) = "png" THEN "sendPhoto" ELSE "sendDocument"

WebResult(d, st, status) == [db |-> d, store |-> st, status |-> status]

uploadRequest(d, st, hasFile, fileName, size, category, storageType, fault) ==
  IF ~hasFile THEN WebResult(d, st, 500)
  ELSE IF sizeTooLarge(size) THEN WebResult(d, st, 400)
  ELSE
    LET d1 == IF DefaultRows(d) = {} THEN InsertCategory(d, DefaultName) ELSE d
        finalCategoryId == IF category # 0 THEN category ELSE DefaultId(d1)
        key == ToString(now) \o "_" \o fileName
        finalUrl == Url(key)
    IN IF HasSetting(d1, WebChat) /\ ForeignKeyFails(d1, finalCategoryId)
       THEN WebResult(d1, st, 500)
       ELSE
         LET d2 == IF HasSetting(d1, WebChat)
                   THEN UpdateSetting(d1, WebChat,
                          [Setting(d1, WebChat) EXCEPT
                             !.storage_type = storageType,
                             !.current_category_id = finalCategoryId])
                   ELSE d1
         IN IF storageType = "r2" THEN
              IF ~config.bucket \/ fault = "put" THEN WebResult(d2, st, 500)
              ELSE LET st1 == [st EXCEPT !.r2 = @ \cup {key}]
                   IN IF fault = "insert" \/ ForeignKeyFails(d2, finalCategoryId)
                      THEN WebResult(d2, st1, 500)
                      ELSE WebResult(
                             InsertFile(d2, FileRow(d2, finalUrl, key, -1,
                               fileName, size, storageType, finalCategoryId,
                               WebChat)),
                             st1, 1)
            ELSE
              IF \/ fault = "send_retry"
                 \/ (fault = "send" /\ webSendMethod(fileName) = "sendDocument")
              THEN WebResult(d2, st, 502)
              ELSE LET mid == st.tgSeq + 1
                       st1 == [st EXCEPT !.tg = @ \cup {mid}, !.tgSeq = mid]
                       fileId == sentFileId(mid, fault)
                   IN IF \/ noFileId(fileId)
                         \/ fault = "insert" \/ ForeignKeyFails(d2, finalCategoryId)
                      THEN WebResult(d2, st1, 500)
                      ELSE WebResult(
                             InsertFile(d2, FileRow(d2, finalUrl, fileId,
                               mid, fileName, size, storageType,
                               finalCategoryId, WebChat)),
                             st1, 1)

handleUploadRequest(hasFile, fileName, size, category, storageType, fault) ==
  /\ LET r == uploadRequest(db, store, hasFile, fileName, size, category,
                         storageType, fault)
     IN /\ db' = r.db
        /\ store' = r.store
        /\ now' = IF r.status = 1 THEN now + 1 ELSE now
        /\ ev' = [op |-> "upload", status |-> r.status, size |-> size,
                  storage_type |-> storageType, fault |-> fault]
  /\ UNCHANGED <<config, initedOnce, issued>>

(***************************************************************************)
(* POST /update-suffix (handleUpdateSuffixRequest, lines 4028-4138).       *)
(* `file` is the row the two SELECTs returned (one of findFileRecord).     *)
(* The faults are those of renameFile.                                     *)
(***************************************************************************)
\* The backend named by the row holds what the row refers to.
Resolves(f, st) ==
  IF f.storage_type = "r2" THEN f.fileId \in st.r2 ELSE f.message_id \in st.tg

\* WHERE url = ?, and when that finds nothing WHERE fileId = <last segment>.
findFileRecord(d, url) ==
  LET byUrl == {f \in d.files : f.url = url}
  IN IF byUrl # {} THEN byUrl
     ELSE {f \in d.files : f.fileId = getFileName(url)}

FileResult(d, st, status) == [db |-> d, store |-> st, status |-> status]

updateSuffixRequest(d, st, url, suffix, file, fault) ==
  IF url = "" \/ suffix = "" THEN FileResult(d, st, 0)
  ELSE IF findFileRecord(d, url) = {} THEN FileResult(d, st, 0)
  ELSE
    LET newFileName == Name(suffix, FileExt(getFileName(url)))
        fileUrl == Url(newFileName)
    IN IF \E g \in d.files : g.fileId = newFileName /\ g.id # file.id
       THEN FileResult(d, st, 0)
       ELSE IF \E g \in d.files : g.url = fileUrl /\ g.id # file.id
       THEN FileResult(d, st, 0)
       ELSE LET r == renameTo(d, st, file, newFileName, TRUE, fault)
            IN FileResult(r.db, r.store, IF r.ok THEN 1 ELSE 0)

handleUpdateSuffixRequest(url, suffix, fault) ==
  /\ \E file \in (IF findFileRecord(db, url) = {} THEN {NoFile}
                   ELSE findFileRecord(db, url)) :
       LET r == updateSuffixRequest(db, store, url, suffix, file, fault)
       IN /\ db' = r.db
          /\ store' = r.store
          /\ ev' = [op |-> "update-suffix", status |-> r.status, id |-> url,
                    fault |-> fault, before |-> file,
                    held |-> file # NoFile /\ Resolves(file, store),
                    free |-> /\ file # NoFile
                             /\ Name(suffix, FileExt(getFileName(url)))
                                  \notin store.r2,
                    origin |-> IF /\ ev.op = "update-suffix" /\ ev.status = 1
                                  /\ ev.fault = "none" /\ ev.held /\ ev.free
                                  /\ ev.before.id = file.id
                               THEN ev.before ELSE NoFile]
  /\ UNCHANGED <<config, now, initedOnce, issued>>

(***************************************************************************)
(* POST /delete (handleDeleteRequest, lines 2329-2386).  The body carries  *)
(* `id` (a url or a primary key) and `fileId`; "" stands for an absent     *)
(* field.  `file` is the row the SELECTs returned (one of findForDelete).  *)
(*   fault "del"  : bucket.delete / deleteMessage fails                    *)
(*   fault "stmt" : DELETE FROM files throws                               *)
(***************************************************************************)
DeleteFileFaults == {"none", "del", "stmt"}

\* Lines 2343-2351.
findForDelete(d, id, fileId) ==
  LET first == IF startsWithHttp(id) THEN {f \in d.files : f.url = id}
               ELSE {f \in d.files : ToString(f.id) = id}
  IN IF first # {} THEN first
     ELSE IF fileId # "" THEN {f \in d.files : f.fileId = fileId}
     ELSE {}

OneOf(rows) == IF rows = {} THEN {NoFile} ELSE rows

\* Variant of DeleteRow: the statement removes nothing (C15).
DeleteRow_kept(d, id) == d
\* DELETE FROM files WHERE id = ?
DeleteRow(d, id) == [d EXCEPT !.files = {f \in @ : f.id # id}]

\* `attempted`: the ids of the rows whose backend content the handler tried
\* to delete.
DeleteResult(d, st, status, attempted) ==
  [db |-> d, store |-> st, status |-> status, attempted |-> attempted]

deleteRequest(d, st, id, fileId, file, fault) ==
  IF id = "" /\ fileId = "" THEN DeleteResult(d, st, 0, {})
  ELSE IF findForDelete(d, id, fileId) = {} THEN DeleteResult(d, st, 0, {})
  ELSE
    LET viaBucket == file.storage_type = "r2" /\ config.bucket
        st1 == IF viaBucket THEN deleteFile(st, file.fileId, fault) ELSE st
        attempted == IF viaBucket THEN {file.id} ELSE {}
    IN IF fault = "stmt" THEN DeleteResult(d, st1, 0, attempted)
       ELSE DeleteResult(DeleteRow(d, file.id), st1, 1, attempted)

handleDeleteRequest(id, fileId, fault) ==
  /\ \E file \in OneOf(findForDelete(db, id, fileId)) :
       LET r == deleteRequest(db, store, id, fileId, file, fault)
       IN /\ db' = r.db
          /\ store' = r.store
          /\ ev' = [op |-> "delete", status |-> r.status, id |-> id,
                    fileId |-> fileId, fault |-> fault, before |-> file,
                    attempted |-> r.attempted,
                    again |-> /\ ev.op = "delete" /\ ev.status = 1
                              /\ ev.id = id /\ ev.fileId = fileId]
  /\ UNCHANGED <<config, now, initedOnce, issued>>

(***************************************************************************)
(* POST /delete-multiple (handleDeleteMultipleRequest, lines 1989-2072).   *)
(* `urls` is the submitted array; each url is handled in turn, its own     *)
(* failure caught.  `file` rows come from the SELECTs of lines 2010-2017.  *)
(***************************************************************************)
hasMessage(f) == f.storage_type = "telegram" /\ f.message_id # 0
hasObject(f) == f.storage_type = "r2" /\ f.fileId # "" /\ config.bucket

\* One turn of the loop on the first file the SELECTs return.
deleteOne(d, st, url, fault) ==
  LET hit == findFileRecord(d, url)
  IN IF hit = {} THEN [db |-> d, store |-> st, ok |-> FALSE, attempted |-> {}]
     ELSE
       LET file == CHOOSE f \in hit : \A g \in hit : f.id <= g.id
           st1 == IF hasMessage(file)
                  THEN (IF fault = "del" THEN st
                        ELSE [st EXCEPT !.tg = @ \ {file.message_id}])
                  ELSE IF hasObject(file)
                  THEN deleteFile(st, file.fileId, fault)
                  ELSE st
           attempted == IF hasMessage(file) \/ hasObject(file)
                        THEN {file.id} ELSE {}
       IN IF fault = "stmt"
          THEN [db |-> d, store |-> st1, ok |-> FALSE, attempted |-> attempted]
          ELSE [db |-> DeleteRow(d, file.id), store |-> st1, ok |-> TRUE,
                attempted |-> attempted]

RECURSIVE deleteEach(_, _, _, _)
deleteEach(d, st, urls, fault) ==
  IF urls = << >>
  THEN [db |-> d, store |-> st, success |-> 0, failed |-> 0, attempted |-> {}]
  ELSE LET one == deleteOne(d, st, Head(urls), fault)
           rest == deleteEach(one.db, one.store, Tail(urls), fault)
       IN [db |-> rest.db, store |-> rest.store,
           success |-> rest.success + (IF one.ok THEN 1 ELSE 0),
           failed |-> rest.failed + (IF one.ok THEN 0 ELSE 1),
           attempted |-> one.attempted \cup rest.attempted]

handleDeleteMultipleRequest(urls, fault) ==
  /\ IF urls = << >>
     THEN /\ ev' = [op |-> "delete-multiple", status |-> 400, urls |-> urls,
                    fault |-> fault, counts |-> FALSE, success |-> 0,
                    failed |-> 0,
                    attempted |-> {}]
          /\ UNCHANGED <<db, store>>
     ELSE LET r == deleteEach(db, store, urls, fault)
          IN /\ db' = r.db
             /\ store' = r.store
             /\ ev' = [op |-> "delete-multiple", status |-> 1, urls |-> urls,
                       fault |-> fault, counts |-> TRUE, success |-> r.success,
                       failed |-> r.failed, attempted |-> r.attempted]
  /\ UNCHANGED <<config, now, initedOnce, issued>>

(***************************************************************************)
(* POST /update-remark (handleUpdateRemarkRequest, lines 4302-4331): one   *)
(* UPDATE per url, run as a batch.  `fault`: the batch throws.             *)
(***************************************************************************)
\* Variant of SetRemark: the UPDATE has no WHERE clause (C18).
SetRemark_all(d, urls, remark) ==
  [d EXCEPT !.files = {[f EXCEPT !.remark = remark] : f \in @}]
\* UPDATE files SET remark = ? WHERE url = ?, for each url.
SetRemark(d, urls, remark) ==
  [d EXCEPT !.files =
     {IF f.url \in urls THEN [f EXCEPT !.remark = remark] ELSE f : f \in @}]

updateRemarkRequest(d, urls, remark, fault) ==
  IF urls = {} THEN [db |-> d, status |-> 400]
  ELSE IF fault THEN [db |-> d, status |-> 500]
  ELSE [db |-> SetRemark(d, urls, remark), status |-> 1]

handleUpdateRemarkRequest(urls, remark, fault) ==
  /\ LET r == updateRemarkRequest(db, urls, remark, fault)
     IN /\ db' = r.db
        /\ ev' = [op |-> "update-remark", status |-> r.status, urls |-> urls,
                  counts |-> FALSE]
  /\ UNCHANGED <<config, store, now, initedOnce, issued>>

(***************************************************************************)
(* SpecInit: the router and the schema manager on any starting database.   *)
(* The starting databases are those an earlier deployment can have left:   *)
(* any subset of the tables, tracked columns missing from `files`, the     *)
(* default category present or not, rows with or without a category.       *)
(***************************************************************************)
LegacyFile(cat) ==
  [id |-> 1, url |-> Url("1_a.png"), fileId |-> "1_a.png", message_id |-> -1,
   created_at |-> 1, file_name |-> "a.png", file_size |-> 1,
   storage_type |-> "r2", category_id |-> cat, chat_id |-> "c1",
   remark |-> NoText]
LegacySetting(cat) ==
  [chat_id |-> "c1", storage_type |-> "r2", current_category_id |-> cat,
   waiting_for |-> NoText, editing_file_id |-> NULL]

LegacyCategories == {{}, {Category(1, DefaultName)}, {Category(1, "A")},
                     {Category(1, DefaultName), Category(2, "A")}}

LegacyDbs ==
  {[tables |-> ts, missing |-> ms, categories |-> cs, catSeq |-> Cardinality(cs),
    files |-> fs, fileSeq |-> Cardinality(fs), user_settings |-> us] :
     ts \in SUBSET Tables, ms \in SUBSET TrackedColumns,
     cs \in LegacyCategories,
     fs \in {{}} \cup {{LegacyFile(c)} : c \in 0..2},
     us \in {{}} \cup {{LegacySetting(c)} : c \in 0..2}}

WellFormedDb(d) ==
  /\ ("categories" \notin d.tables => d.categories = {})
  /\ ("files" \notin d.tables => d.files = {} /\ d.missing = {})
  /\ ("user_settings" \notin d.tables => d.user_settings = {})
  /\ \A f \in d.files : f.category_id \in {NULL} \cup CatIds(d)
  /\ \A u \in d.user_settings : u.current_category_id \in {NULL} \cup CatIds(d)

InitPaths == {"/change-category", "/config", "/webhook"}

InitInit ==
  /\ db \in {d \in LegacyDbs : WellFormedDb(d)}
  /\ config \in {[username |-> UserName, password |-> Password,
                   enableAuth |-> a, foreignKeys |-> k, bucket |-> FALSE] :
                   a \in BOOLEAN, k \in BOOLEAN}
  /\ store = [r2 |-> {f.fileId : f \in db.files}, tg |-> {}, tgSeq |-> 0]
  /\ now = 2
  /\ req = Idle
  /\ initedOnce = FALSE
  /\ issued = {}
  /\ ev = Respond("start", 0)

Gate == \E p \in InitPaths, m \in {"GET", "POST"}, c \in {NoCookie, Garbage} :
          fetch_gate(p, m, FALSE, c)
InitAttempt == \E fault \in InitFaults : initDatabase_attempt(fault)
InitWait == initDatabase_wait
routed(pathname) == req.stage = "route" /\ req.path = pathname /\ req' = Idle
RouteChangeCategory ==
  /\ routed("/change-category")
  /\ \E urls \in SUBSET {Url("1_a.png"), Url("none.png")}, cid \in 0..2, noId \in BOOLEAN :
       handleChangeCategoryRequest(urls, cid, noId)
RouteConfig == routed("/config") /\ handleConfigRequest
RouteWebhook == routed("/webhook") /\ webhookText("c1", "/start", "none")

InitNext ==
  \/ Gate \/ InitAttempt \/ InitWait
  \/ RouteChangeCategory \/ RouteConfig \/ RouteWebhook

SpecInit == InitInit /\ [][InitNext]_vars

\* The runtime resumes an awaited promise: an attempt that can run does run,
\* and the timer between two attempts fires.
SpecInitFair == SpecInit /\ WF_vars(InitAttempt) /\ WF_vars(InitWait)

InInitDatabase == req.stage \in {"init", "wait"}
InitSucceeds == req.stage = "init" /\ req'.stage = "route"
InitThrows == req.stage = "init" /\ req'.stage = "idle"

(***************************************************************************)
(* C6 - Calling initDatabase again after it has succeeded changes nothing: *)
(* the tables and columns, the single default category and the rows are    *)
(* those the earlier call left.                                            *)
(***************************************************************************)
C6_Idempotent ==
  [][(InitSucceeds /\ initedOnce) =>
       /\ db'.tables = db.tables
       /\ db'.missing = db.missing
       /\ Cardinality(DefaultRows(db')) = 1
       /\ db'.categories = db.categories
       /\ db'.files = db.files
       /\ db'.user_settings = db.user_settings]_vars

(***************************************************************************)
(* C7 - When initDatabase has just returned true, no files row has         *)
(* category_id NULL and no user_settings row has current_category_id NULL. *)
(***************************************************************************)
C7_NoOrphansAfterInit ==
  (ev.op = "init" /\ ev.status = 1) =>
    /\ \A f \in db.files : f.category_id # NULL
    /\ \A u \in db.user_settings : u.current_category_id # NULL

(***************************************************************************)
(* C8 - initDatabase terminates after at most 3 attempts: an attempt that  *)
(* succeeds returns true at once and hands over to the route handler, a    *)
(* failed attempt before the 3rd is followed by the wait, the error is     *)
(* thrown only by the 3rd failed attempt, and then the request is over     *)
(* (HTTP 500) without any route handler having run.                        *)
(***************************************************************************)
C8_InitTerminates ==
  /\ [](req.attempt <= 3)
  /\ [][/\ (InitThrows => req.attempt = 3 /\ ev'.status = 500 /\ ~req'.inited)
        /\ (InitSucceeds => req'.inited /\ req'.attempt = req.attempt)
        /\ (req.stage = "init" /\ req'.stage = "wait" => req.attempt < 3)
        /\ (req'.attempt > req.attempt /\ req.attempt > 0 => req.stage = "wait")
        /\ (req'.stage = "route" /\ req.stage # "route" /\ req'.attempt > 0
              => InitSucceeds)]_vars
  /\ (InInitDatabase ~> ~InInitDatabase)

C8_Witness == ev.op = "init" /\ ev.status = 500 /\ ev.attempt = 3

(***************************************************************************)
(* C9 (as stated) - Whenever the handler of a protected path or of         *)
(* /webhook is about to run, initDatabase has completed in this request.   *)
(***************************************************************************)
C9_InitBeforeEveryHandler ==
  (req.stage = "route" /\ req.path \in protectedPaths \cup {"/webhook"})
    => req.inited

(***************************************************************************)
(* C9 (amended) - Whenever the handler of a path other than /webhook,      *)
(* /config, /bing and /login is about to run, initDatabase has returned    *)
(* true in this request and the three tables and the default category      *)
(* exist; the handler of /webhook runs without initDatabase.               *)
(***************************************************************************)
C9_InitBeforeProtectedHandler ==
  /\ (req.stage = "route"
        /\ req.path \notin {"/webhook", "/config", "/bing", "/login"})
       => (req.inited /\ db.tables = Tables /\ DefaultRows(db) # {})
  /\ (req.stage = "route" /\ req.path = "/webhook") => ~req.inited

C9_Witness ==
  req.stage = "route" /\ req.path = "/change-category" /\ req.inited

(***************************************************************************)
(* Spec: the category and file handlers of the web UI and of the bot, on   *)
(* the database the first successful initDatabase leaves behind.  A        *)
(* request to a protected path is served once the gate has let it through  *)
(* and initDatabase has returned true.                                     *)
(***************************************************************************)
EmptyDb ==
  [tables |-> {}, missing |-> {}, categories |-> {}, catSeq |-> 0,
   files |-> {}, fileSeq |-> 0, user_settings |-> {}]

Init ==
  /\ db = initAttempt(EmptyDb, "none").db
  /\ config \in {[username |-> "", password |-> "",
                   enableAuth |-> FALSE, foreignKeys |-> k, bucket |-> TRUE] :
                   k \in BOOLEAN}
  /\ store = [r2 |-> {}, tg |-> {}, tgSeq |-> 0]
  /\ now = 1
  /\ req = Idle
  /\ initedOnce = TRUE
  /\ issued = {}
  /\ ev = Respond("start", 0)

\* The counters of the model stay within its bounds: a step that would take
\* one past its bound is not taken.
Within(d, st) ==
  d.catSeq <= MaxCats /\ d.fileSeq <= MaxFiles /\ st.tgSeq <= MaxFiles

\* On the databases of Spec, SpecBot and SpecUpload initDatabase finds
\* nothing to repair: it returns true and leaves every table as it is.
InitLeavesRows == initAttempt(db, "none") = [outcome |-> "ok", db |-> db]

\* fetch() up to the route handler, for a request that gets there.
served(pathname) ==
  /\ req = Idle /\ UNCHANGED req
  /\ needsInit(pathname) => InitLeavesRows
  /\ Within(db', store')

CategoryIds == 0..(MaxCats + 1)
FileUrls == {f.url : f \in db.files} \cup {Url("none.png")}

CreateCategory ==
  /\ \E name \in NameInputs, fault \in BOOLEAN :
       handleCreateCategoryRequest(name, fault)
  /\ served("/create-category")
DeleteCategory ==
  /\ \E id \in CategoryIds, fault \in DeleteFaults :
       handleDeleteCategoryRequest(id, fault)
  /\ served("/delete-category")
ChangeCategory ==
  /\ \E urls \in {{}} \cup {{u} : u \in FileUrls}, categoryId \in CategoryIds :
       handleChangeCategoryRequest(urls, categoryId, FALSE)
  /\ served("/change-category")
Upload ==
  /\ \E category \in CategoryIds, fault \in {"none", "insert"} :
       handleUploadRequest(TRUE, "a.png", 1, category, "r2", fault)
  /\ served("/upload")
BotUpload ==
  /\ webhookMedia("c1", "a.png", 1, TRUE, "none")
  /\ served("/webhook")
BotCallback ==
  /\ \E cbData \in {"create_category"}
                     \cup {SetCategoryCb(n) : n \in 1..(MaxCats + 1)} :
       webhookCallback("c1", cbData)
  /\ served("/webhook")
BotText ==
  /\ \E text \in {" A ", "B"} : webhookText("c1", text, "none")
  /\ served("/webhook")

Next ==
  \/ CreateCategory \/ DeleteCategory \/ ChangeCategory \/ Upload
  \/ BotUpload \/ BotCallback \/ BotText

Spec == Init /\ [][Next]_vars

(***************************************************************************)
(* C2 - Once initDatabase has succeeded, whatever categories are created   *)
(* and deleted and whatever is uploaded, exactly one categories row has    *)
(* the default name.                                                       *)
(***************************************************************************)
C2_OneDefaultCategory == Cardinality(DefaultRows(db)) = 1

C2_Witness ==
  /\ ev.op = "delete-category" /\ ev.status = 1
  /\ db.files # {} /\ db.user_settings # {}

(***************************************************************************)
(* C3 - Every files row has category_id NULL or the id of an existing      *)
(* categories row.                                                         *)
(***************************************************************************)
C3_CategoryResolves ==
  \A f \in db.files : f.category_id \in {NULL} \cup CatIds(db)

(***************************************************************************)
(* C4 - A POST /delete-category that succeeds for category X removes X,    *)
(* gives every files row and every user_settings row that pointed to X the *)
(* id of the default category, and leaves every other row as it was.       *)
(***************************************************************************)
C4_DeleteReparents ==
  [][(ev'.op = "delete-category" /\ ev'.status = 1) =>
       LET X == ev'.id
           defaultCategoryId == DefaultId(db')
       IN /\ X \in CatIds(db) /\ X \notin CatIds(db')
          /\ defaultCategoryId \in CatIds(db') /\ defaultCategoryId # X
          /\ db'.categories = {c \in db.categories : c.id # X}
          /\ db'.files = {IF f.category_id = X
                          THEN [f EXCEPT !.category_id = defaultCategoryId]
                          ELSE f : f \in db.files}
          /\ db'.user_settings =
               {IF u.current_category_id = X
                THEN [u EXCEPT !.current_category_id = defaultCategoryId]
                ELSE u : u \in db.user_settings}]_vars

C4_Witness ==
  /\ ev.op = "delete-category" /\ ev.status = 1
  /\ ev.files_moved # {} /\ ev.users_moved # {}

(***************************************************************************)
(* C5 - POST /delete-category is answered 400 for an invalid id, 403 for   *)
(* the id of the default category and 404 for an id no category has        *)
(* (500 when the lookup itself fails), and in each of these cases no row   *)
(* and no stored object is changed.                                        *)
(***************************************************************************)
C5_DeleteRejected ==
  [][ev'.op = "delete-category" =>
       /\ (ev'.id = 0 => ev'.status = 400)
       /\ (ev'.id # 0 /\ ev'.id = DefaultId(db) => ev'.status \in {403, 500})
       /\ (ev'.id # 0 /\ ev'.id \notin CatIds(db) => ev'.status \in {404, 500})
       /\ (ev'.status \in {400, 403, 404} => db' = db /\ store' = store)
       /\ (ev'.id = 0 \/ ev'.id = DefaultId(db) \/ ev'.id \notin CatIds(db)
             => db' = db /\ store' = store)]_vars

C5_Witness ==
  /\ ev.op = "delete-category" /\ ev.status = 403
  /\ db.files # {} /\ Cardinality(db.categories) > 1

(***************************************************************************)
(* SpecBot: the dialogue of the bot with one allowed private chat.         *)
(***************************************************************************)
BotTexts == {"/start", "b", "a.png"}
BotButtons == {"create_category", "edit_suffix_input", "delete_file_input",
               "back_to_panel", "list_categories", SetCategoryCb(1)}

BotDialogueText ==
  /\ \E text \in BotTexts, fault \in {"none", "stmt"} :
       webhookText("c1", text, fault)
  /\ served("/webhook")
BotDialogueCallback ==
  /\ \E cbData \in BotButtons : webhookCallback("c1", cbData)
  /\ served("/webhook")
BotDialogueUpload ==
  /\ webhookMedia("c1", "a.png", 1, TRUE, "none")
  /\ served("/webhook")
BotDialogueIgnored ==
  /\ \E chat \in {"c1", "c2"} : webhookIgnored(chat, "group", "text")
  /\ served("/webhook")

BotNext ==
  \/ BotDialogueText \/ BotDialogueCallback \/ BotDialogueUpload
  \/ BotDialogueIgnored

SpecBot == Init /\ [][BotNext]_vars

(***************************************************************************)
(* C1 - A text message '/start' from the allowed private chat, whatever    *)
(* waiting_for and editing_file_id were, leaves waiting_for NULL, sends    *)
(* the panel, and creates no category and renames or deletes no file.      *)
(***************************************************************************)
C1_StartResets ==
  [][(/\ ev'.op = "webhook" /\ ev'.kind = "text" /\ ev'.arg = "/start"
      /\ ev'.status = 200 /\ ev'.note # "ignored") =>
       /\ Setting(db', ev'.chat).waiting_for = NoText
       /\ ev'.panel # NoPanel
       /\ db'.categories = db.categories
       /\ db'.files = db.files
       /\ store' = store]_vars

(***************************************************************************)
(* SpecUpload: uploads of every size through the web form and the bot.     *)
(***************************************************************************)
Sizes == {1, SizeLimit, SizeLimit + 1}

UploadSized ==
  /\ \E size \in Sizes, storageType \in {"r2", "telegram"},
        fault \in UploadFaults :
       handleUploadRequest(TRUE, "a.png", size, 0, storageType, fault)
  /\ served("/upload")
BotUploadSized ==
  /\ \E size \in Sizes, hasLength \in BOOLEAN, fault \in MediaFaults :
       webhookMedia("c1", "a.png", size, hasLength, fault)
  /\ served("/webhook")
BotSwitchStorage ==
  /\ webhookCallback("c1", "switch_storage")
  /\ served("/webhook")

UploadNext == UploadSized \/ BotUploadSized \/ BotSwitchStorage

\* env.BUCKET is bound or not.
UploadInit ==
  /\ db = initAttempt(EmptyDb, "none").db
  /\ config \in {[username |-> "", password |-> "",
                   enableAuth |-> FALSE, foreignKeys |-> TRUE, bucket |-> b] :
                   b \in BOOLEAN}
  /\ store = [r2 |-> {}, tg |-> {}, tgSeq |-> 0]
  /\ now = 1
  /\ req = Idle
  /\ initedOnce = TRUE
  /\ issued = {}
  /\ ev = Respond("start", 0)

SpecUpload == UploadInit /\ [][UploadNext]_vars

WebOversize == ev'.op = "upload" /\ ev'.size > SizeLimit
BotMedia == ev'.op = "webhook" /\ ev'.kind = "media"
Refused == db'.files = db.files /\ store' = store

(***************************************************************************)
(* C10 (as stated) - On both upload paths an upload of more than           *)
(* maxSizeMB * 1024 * 1024 bytes is refused: failure reply, nothing put    *)
(* in the bucket, nothing sent to the chat, no files row.                  *)
(***************************************************************************)
C10_OversizeRefused ==
  [][/\ (WebOversize => ev'.status # 1 /\ Refused)
     /\ (BotMedia /\ ev'.size > SizeLimit =>
           ev'.note # "uploaded" /\ Refused)]_vars

(***************************************************************************)
(* C10 (amended) - A web upload whose file.size exceeds the limit, and a   *)
(* bot upload whose download reports a Content-Length above the limit,     *)
(* is refused: failure reply, nothing put in the bucket, nothing sent to   *)
(* the chat, no files row.                                                 *)
(***************************************************************************)
C10_ReportedOversizeRefused ==
  [][/\ (WebOversize => ev'.status = 400 /\ Refused)
     /\ (BotMedia /\ ev'.contentLength > SizeLimit =>
           ev'.note \in {"too-large", "failed"} /\ Refused)]_vars

C10_Witness ==
  /\ ev.op = "webhook" /\ ev.kind = "media" /\ ev.note = "too-large"
  /\ ev.contentLength > SizeLimit /\ db.files # {}

WebUpload == ev'.op = "upload"
NewRows == db'.files \ db.files

(***************************************************************************)
(* C11 - An upload that selects 'r2' while no bucket is bound falls back   *)
(* to the storage chat and succeeds, on the web form and through the bot   *)
(* alike (nothing else failing: the size is within the limit and no        *)
(* backend call is refused).                                               *)
(***************************************************************************)
C11_FallsBackToChat ==
  [][(/\ ~config.bucket /\ ev'.storage_type = "r2" /\ ev'.fault = "none"
      /\ ev'.size <= SizeLimit /\ (WebUpload \/ BotMedia)) =>
       /\ WebUpload => ev'.status = 1
       /\ BotMedia => ev'.note = "uploaded"
       /\ \E f \in NewRows : f.message_id \in store'.tg]_vars

\* The upload of this step took the bucket branch / its backend write failed
\* (the put threw, every send was refused, or the send answered no file id).
BucketBranch ==
  IF WebUpload THEN ev'.storage_type = "r2"
  ELSE ev'.storage_type = "r2" /\ config.bucket
BackendWriteFails ==
  IF BucketBranch THEN ev'.fault = "put" \/ ~config.bucket
  ELSE ev'.fault \in {"send_retry", "send_noid"}

(***************************************************************************)
(* C12 - A files row is inserted only after the backend write of the same  *)
(* upload has succeeded: an upload whose put or send fails, or whose send  *)
(* answers without a file id, inserts no row, and every row an upload      *)
(* inserts refers to content the backend holds (a bucket key, or a message *)
(* of the storage chat together with its file id).                         *)
(***************************************************************************)
C12_RowAfterBackendWrite ==
  [][(WebUpload \/ BotMedia) =>
       /\ BackendWriteFails => NewRows = {}
       /\ \A f \in NewRows :
            \/ f.message_id = -1 /\ f.fileId \in store'.r2
            \/ /\ f.message_id \in store'.tg \ store.tg
               /\ f.fileId = TgFileId(f.message_id)]_vars

C12_Witness ==
  /\ ev.op = "upload" /\ ev.fault = "send_noid" /\ ev.status = 500
  /\ store.tg # {} /\ db.files = {}

(***************************************************************************)
(* SpecFiles: the file handlers of the web interface on a deployment with  *)
(* a bound bucket.  Files come from POST /upload with either storage type. *)
(***************************************************************************)
FilesInit ==
  /\ db = initAttempt(EmptyDb, "none").db
  /\ config = [username |-> "", password |-> "",
                   enableAuth |-> FALSE, foreignKeys |-> TRUE, bucket |-> TRUE]
  /\ store = [r2 |-> {}, tg |-> {}, tgSeq |-> 0]
  /\ now = 1
  /\ req = Idle
  /\ initedOnce = TRUE
  /\ issued = {}
  /\ ev = Respond("start", 0)

\* What a client sends to name a file: a url, a bucket key, the uploaded
\* file name, or the url of no file.
KeyNames == {Name(ToString(t) \o "_a", "png") : t \in 1..MaxFiles} \cup {"b.png"}
FileTokens ==
  {Url(n) : n \in KeyNames} \cup KeyNames \cup {"a.png", Url("none.png")}
RenameSuffixes == {"b", "1_a"}

FileUpload ==
  /\ \E storageType \in {"r2", "telegram"} :
       handleUploadRequest(TRUE, "a.png", 1, 0, storageType, "none")
  /\ served("/upload")
FileRename ==
  /\ \E url \in FileTokens, suffix \in RenameSuffixes, fault \in RenameFaults :
       handleUpdateSuffixRequest(url, suffix, fault)
  /\ served("/update-suffix")

\* The bodies of POST /delete: {id}, {fileId} or neither.
DeleteBodies ==
  {<<t, "">> : t \in FileTokens \cup {ToString(i) : i \in 1..MaxFiles}}
    \cup {<<"", k>> : k \in KeyNames \cup {TgFileId(1)}} \cup {<<"", "">>}
\* The arrays of POST /delete-multiple: at most two urls.
UrlLists ==
  LET us == {Url(n) : n \in KeyNames}
  IN {<< >>} \cup {<<u>> : u \in us} \cup {<<Url("none.png"), u>> : u \in us}

FileDelete ==
  /\ \E body \in DeleteBodies, fault \in DeleteFileFaults :
       handleDeleteRequest(body[1], body[2], fault)
  /\ served("/delete")
FileDeleteMultiple ==
  /\ \E urls \in UrlLists, fault \in DeleteFileFaults :
       handleDeleteMultipleRequest(urls, fault)
  /\ served("/delete-multiple")

FilesNext == FileUpload \/ FileRename

SpecFiles == FilesInit /\ [][FilesNext]_vars

\* SpecDelete: uploads, the two delete handlers, and renames that leave a
\* row whose fileId is no longer the last segment of its url.
FileRenameKeepingKey ==
  /\ \E url \in FileTokens, fault \in {"none", "get"} :
       handleUpdateSuffixRequest(url, "b", fault)
  /\ served("/update-suffix")

DeleteNext ==
  FileUpload \/ FileDelete \/ FileDeleteMultiple \/ FileRenameKeepingKey

SpecDelete == FilesInit /\ [][DeleteNext]_vars

RowOf(d, id) == CHOOSE f \in d.files : f.id = id

(***************************************************************************)
(* C13 - After a rename that reports success, whichever of the storage     *)
(* get / put / delete steps failed, the row carries the new url and        *)
(* file_name and its fileId still refers to content held by the backend    *)
(* the row names (for a row whose content was there before the rename).    *)
(***************************************************************************)
C13_RenameKeepsContent ==
  [][(/\ ev'.op = "update-suffix" /\ ev'.status = 1
      /\ ev'.held) =>
       LET f == RowOf(db', ev'.before.id)
       IN /\ f.file_name = getFileName(f.url)
          /\ Resolves(f, store')]_vars

(***************************************************************************)
(* C14 - Renaming a file from A to B and back to A (two POST               *)
(* /update-suffix, no storage step failing) gives back the row it was      *)
(* before in url, fileId, file_name, storage_type, category_id, chat_id    *)
(* and remark, and leaves nothing under the name B in the backend.         *)
(***************************************************************************)
\* The last two operations renamed one file, whose content the backend held,
\* away from its url, to a name the bucket did not hold, and back.
RoundTrip ==
  /\ ev.op = "update-suffix" /\ ev.status = 1 /\ ev.fault = "none"
  /\ ev.origin # NoFile /\ ev.origin.url # ev.before.url
  /\ RowOf(db, ev.before.id).url = ev.origin.url
SameRow(f, o) ==
  /\ f.url = o.url /\ f.fileId = o.fileId /\ f.file_name = o.file_name
  /\ f.storage_type = o.storage_type /\ f.category_id = o.category_id
  /\ f.chat_id = o.chat_id /\ f.remark = o.remark

C15_DeleteTwice ==
  [][ev'.op = "delete" =>
       /\ (ev'.before # NoFile /\ ev'.fault # "stmt" =>
             /\ ev'.status = 1
             /\ db'.files = db.files \ {ev'.before})
       /\ (ev'.again =>
             /\ ev'.status = 0 /\ ev'.before = NoFile
             /\ db'.files = db.files)]_vars

C15_Witness ==
  /\ ev.op = "delete" /\ ev.again /\ ev.status = 0
  /\ startsWithHttp(ev.id) /\ ev.id # Url("none.png")

(***************************************************************************)
(* C16 - On every delete path and for both storage types the deletion of   *)
(* the bucket object or of the chat message is attempted before the row is *)
(* deleted, and the row is deleted even when that deletion fails.          *)
(***************************************************************************)
Deletes == ev'.op \in {"delete", "delete-multiple"}
HasContent(f) ==
  \/ f.storage_type = "r2" /\ config.bucket
  \/ f.storage_type = "telegram" /\ f.message_id \notin {0, -1}

C16_BackendDeletedFirst ==
  [][Deletes =>
       /\ \A f \in db.files \ db'.files :
            HasContent(f) => f.id \in ev'.attempted
       /\ (ev'.op = "delete" /\ ev'.fault = "del" /\ ev'.before # NoFile =>
             ev'.before \notin db'.files)]_vars

(***************************************************************************)
(* SpecLookup: how a token names a file.  Two uploads of the same file     *)
(* name through the web form (their rows belong to the first allowed       *)
(* chat), then POST /delete, POST /update-suffix and the bot's delete and  *)
(* rename dialogues in that chat, with no call failing.                    *)
(***************************************************************************)
LookupTexts ==
  {"a.png", "1_a.png", "b.png", Url("1_a.png"), Url("2_a.png"), Url("none.png")}
LookupBodies ==
  {<<t, "">> : t \in LookupTexts \cup {"1"}} \cup {<<"", "1_a.png">>}

lookedUp(pathname) ==
  /\ req = Idle /\ UNCHANGED req
  /\ needsInit(pathname) => InitLeavesRows
  /\ db'.fileSeq <= MaxFiles + 1

LookupUpload ==
  /\ handleUploadRequest(TRUE, "a.png", 1, 0, "r2", "none")
  /\ lookedUp("/upload")
LookupRename ==
  /\ \E url \in LookupTexts : handleUpdateSuffixRequest(url, "b", "none")
  /\ lookedUp("/update-suffix")
LookupDelete ==
  /\ \E body \in LookupBodies : handleDeleteRequest(body[1], body[2], "none")
  /\ lookedUp("/delete")
LookupBotAsk ==
  /\ \E cbData \in {"delete_file_input", "edit_suffix_input"} :
       webhookCallback(WebChat, cbData)
  /\ lookedUp("/webhook")
LookupBotText ==
  /\ \E text \in LookupTexts : webhookText(WebChat, text, "none")
  /\ lookedUp("/webhook")

LookupNext ==
  LookupUpload \/ LookupRename \/ LookupDelete \/ LookupBotAsk \/ LookupBotText

SpecLookup == FilesInit /\ [][LookupNext]_vars

\* A step of the web interface that resolves the token ev'.id (and, for
\* POST /delete, the body's fileId), and the row it chose.
WebLookup == ev'.op \in {"delete", "update-suffix"} /\ ev'.id # ""
WebKey == IF ev'.op = "delete" THEN ev'.fileId ELSE getFileName(ev'.id)
\* The bot's delete dialogue removed a row / its rename dialogue chose one.
BotDeleted ==
  /\ ev'.op = "webhook" /\ ev'.kind = "text"
  /\ ev'.was = "delete_file_input" /\ ev'.note = "deleted"
BotChose ==
  /\ ev'.op = "webhook" /\ ev'.kind = "text"
  /\ ev'.was = "edit_suffix_input_file" /\ ev'.note = "found"
BotChoice ==
  IF BotDeleted THEN db.files \ db'.files
  ELSE {f \in db.files : f.id = Setting(db', WebChat).editing_file_id}

ByUrl(t) == {f \in db.files : f.url = t}
ByFileId(t) == {f \in db.files : f.fileId = t}
ByName(t) == {f \in db.files : f.file_name = t}
NewestOf(rows) == {f \in rows : \A g \in rows : g.created_at <= f.created_at}

(***************************************************************************)
(* C17 - A token given for delete or rename (POST /delete, POST            *)
(* /update-suffix, the bot's delete and rename-target input) chooses the   *)
(* row by exact url first, then by fileId, then by file_name, the most     *)
(* recently created of several file_name matches.                          *)
(***************************************************************************)
UrlFileIdName(t) ==
  IF ByUrl(t) # {} THEN ByUrl(t)
  ELSE IF ByFileId(t) # {} THEN ByFileId(t)
  ELSE NewestOf(ByName(t))

C17_UrlThenFileIdThenName ==
  [][/\ (WebLookup /\ (\A g \in db.files : ToString(g.id) # ev'.id) =>
           IF UrlFileIdName(ev'.id) = {} THEN ev'.before = NoFile
           ELSE ev'.before \in UrlFileIdName(ev'.id))
     /\ (BotDeleted \/ BotChose => BotChoice \subseteq UrlFileIdName(ev'.arg))]_vars

(***************************************************************************)
(* C17 (amended) - POST /delete chooses by exact url when `id` is a url    *)
(* and by primary key otherwise, then by the body's fileId; POST           *)
(* /update-suffix chooses by exact url, then by fileId equal to the last   *)
(* segment of the token; neither looks at file_name.  The bot chooses,     *)
(* among the rows of the chat, by exact url when the text is a url, and    *)
(* otherwise the most recently created row whose file_name or last url     *)
(* segment is the text.                                                    *)
(***************************************************************************)
C17_TokenResolution ==
  [][/\ (WebLookup =>
           LET t == ev'.id
               first == IF ev'.op = "delete" /\ ~startsWithHttp(t)
                        THEN {f \in db.files : ToString(f.id) = t}
                        ELSE ByUrl(t)
               hits == IF first # {} THEN first
                       ELSE IF WebKey # "" THEN ByFileId(WebKey) ELSE {}
           IN IF hits = {} THEN ev'.before = NoFile /\ ev'.status = 0
              ELSE ev'.before \in hits)
     /\ (BotDeleted \/ BotChose =>
           LET t == ev'.arg
               mine == {f \in db.files : f.chat_id = WebChat}
               hits == IF startsWithHttp(t) THEN ByUrl(t) \cap mine
                       ELSE NewestOf((ByName(t) \cup ByUrl(Url(t))) \cap mine)
           IN BotChoice # {} /\ BotChoice \subseteq hits)]_vars

\* The bot was given a file name two rows carry and removed the newer one.
C17_Witness ==
  /\ ev.op = "webhook" /\ ev.kind = "text" /\ ev.note = "deleted"
  /\ ev.arg = "a.png"
  /\ \E g \in db.files : g.file_name = "a.png" /\ g.id < db.fileSeq

(***************************************************************************)
(* SpecBulk: the three bulk handlers on up to MaxFiles + 1 uploaded files. *)
(***************************************************************************)
BulkLists ==
  {<< >>, <<Url("1_a.png")>>, <<Url("none.png"), Url("1_a.png")>>,
   <<Url("1_a.png"), Url("2_a.png")>>, <<Url("1_a.png"), Url("1_a.png")>>}
BulkSets ==
  {{}, {Url("1_a.png")}, {Url("none.png")}, {Url("none.png"), Url("1_a.png")},
   {Url("1_a.png"), Url("2_a.png")}}

BulkUpload ==
  /\ handleUploadRequest(TRUE, "a.png", 1, 0, "r2", "none")
  /\ lookedUp("/upload")
BulkDelete ==
  /\ \E urls \in BulkLists, fault \in {"none", "stmt"} :
       handleDeleteMultipleRequest(urls, fault)
  /\ lookedUp("/delete-multiple")
BulkRemark ==
  /\ \E urls \in BulkSets, remark \in {"x", "y"}, fault \in BOOLEAN :
       handleUpdateRemarkRequest(urls, remark, fault)
  /\ lookedUp("/update-remark")
BulkCategory ==
  /\ \E urls \in BulkSets, categoryId \in {NULL, 1} :
       handleChangeCategoryRequest(urls, categoryId, FALSE)
  /\ lookedUp("/change-category")

BulkNext == BulkUpload \/ BulkDelete \/ BulkRemark \/ BulkCategory

SpecBulk == FilesInit /\ [][BulkNext]_vars

BulkDone ==
  ev'.op \in {"delete-multiple", "update-remark", "change-category"}
    /\ ev'.status = 1
Submitted ==
  IF ev'.op = "delete-multiple"
  THEN {ev'.urls[i] : i \in 1..Len(ev'.urls)} ELSE ev'.urls
SubmittedCount ==
  IF ev'.op = "delete-multiple" THEN Len(ev'.urls) ELSE Cardinality(ev'.urls)
\* The rows the request names.
NamedRows == {f \in db.files : f.url \in Submitted}

handleLoginRequest(method, username, password) ==
  /\ UNCHANGED <<db, config, store, now, initedOnce>>
  /\ IF method = "POST"
     THEN IF username = config.username /\ password = config.password
          THEN /\ issued' = issued \cup {Token(config.username, now + cookieDays)}
               /\ ev' = Respond("login", 200)
          ELSE /\ UNCHANGED issued
               /\ ev' = Respond("login", 401)
     ELSE /\ UNCHANGED issued
          /\ ev' = Respond("login-page", 200)

\* GET / and GET /upload (handleUploadRequest, lines 1829-1845): the page,
\* after the user_settings row of the first configured chat is made sure of.
uploadPage(d) ==
  IF HasSetting(d, "c1") THEN [db |-> d, status |-> 200]
  ELSE IF DefaultRows(d) = {} THEN [db |-> d, status |-> 500]
  ELSE [db |-> [d EXCEPT !.user_settings = @ \cup
                  {[chat_id |-> "c1", storage_type |-> "telegram",
                    current_category_id |-> DefaultId(d),
                    waiting_for |-> NoText, editing_file_id |-> NULL]}],
        status |-> 200]
handleUploadPage ==
  /\ LET r == uploadPage(db)
     IN db' = r.db /\ ev' = Respond("upload-page", r.status)
  /\ UNCHANGED <<config, store, now, initedOnce, issued>>

\* GET /admin and POST /search read categories and files and write nothing.
handleAdminRequest ==
  /\ ev' = Respond("admin", 200)
  /\ UNCHANGED <<db, config, store, now, initedOnce, issued>>
handleSearchRequest ==
  /\ ev' = Respond("search", 200)
  /\ UNCHANGED <<db, config, store, now, initedOnce, issued>>
\* GET /bing answers from the cache or from the upstream; touches no table.
handleBingImagesRequest ==
  /\ ev' = Respond("bing", 200)
  /\ UNCHANGED <<db, config, store, now, initedOnce, issued>>

(***************************************************************************)
(* SpecAuth: the gate, the login and the route handlers behind the gate,   *)
(* with authentication enabled or not and the credentials configured or    *)
(* not.  The clock counts days and moves a cookie lifetime at a time.      *)
(***************************************************************************)
MaxWeeks == 2       \* cookie lifetimes the clock moves on by
LastDay == 2 + MaxWeeks * cookieDays
AuthInit ==
  /\ db = initAttempt(EmptyDb, "none").db
  /\ config \in {c \in [username : {"", UserName}, password : {"", Password},
                         enableAuth : BOOLEAN, foreignKeys : {TRUE},
                         bucket : {TRUE}] :
                    c.enableAuth \/ (c.username = "" /\ c.password = "")}
  /\ store = [r2 |-> {}, tg |-> {}, tgSeq |-> 0]
  /\ now = 2
  /\ req = Idle
  /\ initedOnce = TRUE
  /\ issued = {}
  /\ ev = Respond("start", 0)

AuthPaths == protectedPaths \cup {"/webhook", "/config", "/bing", "/login"}
\* A token nobody was handed: made by a client that knows the username.
Forged == Token(UserName, LastDay + 2 * cookieDays)
AuthCookies ==
  {NoCookie, Garbage, Forged, Token("guest", Forged.expiration)} \cup issued

AuthGate ==
  \E p \in AuthPaths, m \in {"GET", "POST"}, j \in BOOLEAN, c \in AuthCookies :
    fetch_gate(p, m, j, c)
AuthInitDatabase == initDatabase_attempt("none")
AuthLogin ==
  /\ routed("/login")
  /\ \E u \in {UserName, "guest"}, p \in {Password, "guess"} :
       handleLoginRequest(req.method, u, p)
AuthUpload ==
  /\ routed("/") \/ routed("/upload")
  /\ IF req.method = "GET" THEN handleUploadPage
     ELSE handleUploadRequest(FALSE, "a.png", 1, 0, "r2", "none")
AuthAdmin == routed("/admin") /\ handleAdminRequest
AuthSearch == routed("/search") /\ handleSearchRequest
AuthCreateCategory ==
  /\ routed("/create-category")
  /\ handleCreateCategoryRequest("B", FALSE)
  /\ db'.catSeq <= MaxCats
AuthDeleteCategory ==
  routed("/delete-category") /\ handleDeleteCategoryRequest(2, "none")
AuthChangeCategory ==
  /\ routed("/change-category")
  /\ handleChangeCategoryRequest({Url("none.png")}, 1, FALSE)
AuthUpdateRemark ==
  /\ routed("/update-remark")
  /\ handleUpdateRemarkRequest({Url("none.png")}, "x", FALSE)
AuthUpdateSuffix ==
  /\ routed("/update-suffix")
  /\ handleUpdateSuffixRequest(Url("none.png"), "b", "none")
AuthDelete ==
  routed("/delete") /\ handleDeleteRequest(Url("none.png"), "", "none")
AuthDeleteMultiple ==
  /\ routed("/delete-multiple")
  /\ handleDeleteMultipleRequest(<<Url("none.png")>>, "none")
AuthConfig == routed("/config") /\ handleConfigRequest
AuthWebhook == routed("/webhook") /\ webhookText("c1", "/start", "none")
AuthBing == routed("/bing") /\ handleBingImagesRequest
\* A cookie lifetime passes between two requests.
Tick ==
  /\ req = Idle
  /\ now + cookieDays <= LastDay
  /\ now' = now + cookieDays
  /\ ev' = Respond("tick", 0)
  /\ UNCHANGED <<db, config, store, req, initedOnce, issued>>

AuthNext ==
  \/ AuthGate \/ AuthInitDatabase \/ AuthLogin \/ AuthUpload \/ AuthAdmin
  \/ AuthSearch \/ AuthCreateCategory \/ AuthDeleteCategory
  \/ AuthChangeCategory \/ AuthUpdateRemark \/ AuthUpdateSuffix \/ AuthDelete
  \/ AuthDeleteMultiple \/ AuthConfig \/ AuthWebhook \/ AuthBing \/ Tick

SpecAuth == AuthInit /\ [][AuthNext]_vars

\* A step of the gate: the request it judged is in ev'.
GateStep == req.stage = "idle" /\ ev'.op \in {"gate", "accepted"}
GateRejects == GateStep /\ ev'.op = "gate"
GateAccepts == GateStep /\ ev'.op = "accepted"
Configured == config.username # "" /\ config.password # ""
\* A cookie authenticate() takes: a token of the configured user whose
\* expiration has not passed.
ValidCookie(cookie) ==
  /\ cookie.kind = "token"
  /\ cookie.username = config.username
  /\ now <= cookie.expiration

\* What the claim says of a request the gate judges.
GateContract ==
  /\ (ev'.path \in protectedPaths /\ ~ValidCookie(ev'.cookie)) =>
       /\ GateRejects
       /\ req' = Idle /\ db' = db /\ store' = store
       /\ ev'.status = IF ev'.method = "POST" \/ ev'.acceptsJson
                       THEN 401 ELSE 302
       /\ (ev'.status = 302 => ev'.to = "/login")
  /\ (ev'.path \in {"/webhook", "/config", "/bing"}) =>
       (GateAccepts /\ req'.stage = "route" /\ req'.path = ev'.path)
  /\ (ev'.path = "/login") =>
       \/ GateAccepts /\ req'.stage = "route" /\ req'.path = "/login"
       \/ ValidCookie(ev'.cookie) /\ ev'.status = 302 /\ ev'.to = "/upload"

(***************************************************************************)
(* C19 (as stated) - With auth enabled, a request to a protected path      *)
(* without a valid auth_token cookie runs no route handler and touches no  *)
(* table; it is answered 401 when it is a POST or accepts JSON and is      *)
(* redirected (302) to /login otherwise; /webhook, /config, /bing and      *)
(* /login are never blocked.                                               *)
(***************************************************************************)
C19_GateBlocksUnauthenticated ==
  [][(GateStep /\ config.enableAuth) => GateContract]_vars

(***************************************************************************)
(* C19 (amended) - With auth enabled and USERNAME and PASSWORD configured, *)
(* a request to a protected path without a valid auth_token cookie runs no *)
(* route handler and touches no table: 401 when it is a POST or accepts    *)
(* JSON, 302 to /login otherwise; /webhook, /config and /bing always reach *)
(* their handler, and /login reaches its handler unless the cookie is      *)
(* valid (then 302 to /upload).  With auth enabled and USERNAME or         *)
(* PASSWORD missing, every request is answered 500 and no handler runs.    *)
(***************************************************************************)
C19_GateOfConfiguredAuth ==
  [][(GateStep /\ config.enableAuth) =>
       IF Configured THEN GateContract
       ELSE GateRejects /\ ev'.status = 500 /\ req' = Idle /\ db' = db]_vars

\* An expired token of the configured user has just been turned away from a
\* protected page, and a request to /webhook let through before.
C19_Witness ==
  /\ config.enableAuth /\ Configured
  /\ ev.op = "gate" /\ ev.status = 302 /\ ev.to = "/login"
  /\ ev.path = "/admin" /\ ev.cookie \in issued
  /\ now > ev.cookie.expiration
  /\ HasSetting(db, "c1")

(***************************************************************************)
(* C20 - With auth enabled, the gate lets a request through to the handler *)
(* of a protected path only if its cookie is a token that an earlier       *)
(* successful POST /login handed out and that has not expired.             *)
(***************************************************************************)
C20_OnlyIssuedCookies ==
  [][(GateAccepts /\ config.enableAuth /\ ev'.path \in protectedPaths) =>
       (ev'.cookie \in issued /\ now <= ev'.cookie.expiration)]_vars

(***************************************************************************)
(* SpecDialogue: the bot's dialogue with one allowed private chat, with    *)
(* every pending state, every kind of update and the failures of the       *)
(* database, the bucket and the chat platform.                             *)
(***************************************************************************)
DlgTexts == {"/start", " A ", "a.png"}
DlgButtons == {"create_category", "edit_suffix_input", "delete_file_input",
               "back_to_panel", "list_categories", SetCategoryCb(MaxCats + 1)}
DlgFaults == {"none", "stmt", "store"}

DlgText ==
  /\ \E text \in DlgTexts, fault \in DlgFaults : webhookText("c1", text, fault)
  /\ served("/webhook")
DlgCallback ==
  /\ \E cbData \in DlgButtons : webhookCallback("c1", cbData)
  /\ served("/webhook")
DlgUpload ==
  /\ \E fault \in {"none", "getFile"} :
       webhookMedia("c1", "a.png", 1, TRUE, fault)
  /\ served("/webhook")

DlgNext == DlgText \/ DlgCallback \/ DlgUpload

SpecDialogue == FilesInit /\ [][DlgNext]_vars

\* The update just handled, by kind and by the waiting_for it found.
BotStep(kind, was) ==
  ev'.op = "webhook" /\ ev'.kind = kind /\ ev'.was = was /\ ev'.status = 200
Pressed(cbData) ==
  ev'.op = "webhook" /\ ev'.kind = "callback" /\ ev'.arg = cbData
    /\ ev'.status = 200
\* The persisted row of the chat after / before the step.
After == Setting(db', "c1")
Before == Setting(db, "c1")

(***************************************************************************)
(* C21 - The callback 'create_category' pressed in the idle state persists *)
(* waiting_for = new_category.  The next text message then ends with       *)
(* waiting_for NULL and the menu sent, and either creates the category     *)
(* named by the trimmed text and persists it as current_category_id, or    *)
(* finds a category of that name and creates no row, or fails at the       *)
(* insert and creates no row.                                              *)
(***************************************************************************)
C21_CreateCategoryDialogue ==
  [][/\ (Pressed("create_category") /\ ev'.was = NoText) =>
          After.waiting_for = "new_category"
     /\ BotStep("text", "new_category") =>
          LET name == Trim(ev'.arg)
              made == db'.categories \ db.categories
          IN /\ After.waiting_for = NoText
             /\ ev'.panel # NoPanel
             /\ IF \E c \in db.categories : c.name = name
                THEN made = {} /\ ev'.note = "exists"
                ELSE \/ /\ ev'.note = "created"
                        /\ Cardinality(made) = 1
                        /\ \A c \in made :
                             c.name = name /\ After.current_category_id = c.id
                     \/ ev'.note = "failed" /\ made = {}
             /\ db.categories \subseteq db'.categories]_vars

C21_Witness ==
  /\ ev.op = "webhook" /\ ev.kind = "text" /\ ev.was = "new_category"
  /\ ev.arg = " A " /\ ev.note = "created"
  /\ \E c \in db.categories :
       c.name = "A" /\ Setting(db, "c1").current_category_id = c.id
  /\ Setting(db, "c1").waiting_for = NoText

\* The rows the text of the step names, as the handler looks them up.
Named == MatchesByText(db, "c1", Trim(ev'.arg))

(***************************************************************************)
(* C22 - In state edit_suffix_input_file a text message that resolves to   *)
(* no file of the chat leaves waiting_for = edit_suffix_input_file; one    *)
(* that resolves to a file moves to edit_suffix_input_new with             *)
(* editing_file_id set to the id of that file.                             *)
(***************************************************************************)
C22_RenameTargetDialogue ==
  [][BotStep("text", "edit_suffix_input_file") =>
       IF Named = {}
       THEN After.waiting_for = "edit_suffix_input_file"
       ELSE /\ After.waiting_for = "edit_suffix_input_new"
            /\ After.editing_file_id \in {f.id : f \in Named}]_vars

(***************************************************************************)
(* C23 - In state edit_suffix_input_new with editing_file_id set, every    *)
(* text message ends with waiting_for and editing_file_id NULL and a       *)
(* success or failure message sent: the rename succeeded, the file is      *)
(* gone, or a step of the rename failed.                                   *)
(***************************************************************************)
C23_RenameReplyClears ==
  [][(BotStep("text", "edit_suffix_input_new")
        /\ Before.editing_file_id # NULL) =>
       /\ After.waiting_for = NoText
       /\ After.editing_file_id = NULL
       /\ ev'.note \in {"renamed", "gone", "failed"}]_vars

MatchingAction(was, cbData) ==
  \/ (was = "new_category" /\ cbData = "create_category")
  \/ (was = "delete_file_input" /\ cbData = "delete_file_input")
  \/ (was = "edit_suffix_input_file" /\ cbData = "edit_suffix_input")

(***************************************************************************)
(* C26 - In every pending state, a menu callback that is not the action of *)
(* that state resets waiting_for and editing_file_id to NULL before it is  *)
(* processed: after a callback that starts no dialogue of its own both     *)
(* are NULL.                                                               *)
(***************************************************************************)
C26_NavigationResets ==
  [][(/\ ev'.op = "webhook" /\ ev'.kind = "callback" /\ ev'.was # NoText
      /\ ~MatchingAction(ev'.was, ev'.arg)
      /\ ev'.arg \in {"list_categories", "back_to_panel", "switch_storage",
                      "recent_files", "r2_stats"}
                     \cup {SetCategoryCb(n) : n \in 1..(MaxCats + 1)}) =>
       (After.waiting_for = NoText /\ After.editing_file_id = NULL)]_vars

\* A step that handled a media message.
MediaStep == ev'.op = "webhook" /\ ev'.kind = "media"

(***************************************************************************)
(* C27 - A media message is uploaded whatever waiting_for is: it is never  *)
(* taken for the pending text reply, and waiting_for and editing_file_id   *)
(* stay as they were.                                                      *)
(***************************************************************************)
C27_MediaTakesPriority ==
  [][MediaStep =>
       /\ ev'.note \in {"uploaded", "failed", "too-large"}
       /\ After.waiting_for = ev'.was
       /\ HasSetting(db, "c1") =>
            After.editing_file_id = Before.editing_file_id
       /\ db'.categories = db.categories
       /\ db.files \subseteq db'.files
       /\ (ev'.note = "uploaded") <=> (db'.files # db.files)]_vars

C27_Witness ==
  /\ ev.op = "webhook" /\ ev.kind = "media" /\ ev.note = "uploaded"
  /\ ev.was = "new_category"
  /\ Setting(db, "c1").waiting_for = "new_category"
  /\ db.files # {}

\* A step whose handling failed: the outer catch answered 500, the
\* callback-query catch reported an error, or the upload was given up.
FailedStep ==
  /\ ev'.op = "webhook"
  /\ \/ ev'.status = 500
     \/ ev'.note \in {"error", "failed"}

(***************************************************************************)
(* C28 - Whenever the handling of a bot message or callback fails, the     *)
(* persisted waiting_for of the chat is NULL afterwards.                   *)
(***************************************************************************)
C28_FailureClearsState ==
  [][FailedStep => After.waiting_for = NoText]_vars

(***************************************************************************)
(* SpecRename: the two renames side by side.  Files come from the web      *)
(* form (their rows belong to the first allowed chat); the chat renames    *)
(* them through the bot's dialogue and a client through POST               *)
(* /update-suffix, with no call failing.                                   *)
(***************************************************************************)
RnUpload ==
  /\ \E storageType \in {"r2", "telegram"} :
       handleUploadRequest(TRUE, "a.png", 1, 0, storageType, "none")
  /\ lookedUp("/upload")
RnAsk ==
  /\ webhookCallback(WebChat, "edit_suffix_input")
  /\ lookedUp("/webhook")
RnText ==
  /\ \E text \in {"a.png", "b"} : webhookText(WebChat, text, "none")
  /\ lookedUp("/webhook")
RnWeb ==
  /\ \E url \in {Url("1_a.png"), Url("b.png")} :
       handleUpdateSuffixRequest(url, "b", "none")
  /\ lookedUp("/update-suffix")

RnNext == RnUpload \/ RnAsk \/ RnText \/ RnWeb

SpecRename == FilesInit /\ [][RnNext]_vars

\* The names a rename leaves on the rows, and what the backends hold.
Names(d) == {<<f.id, f.url, f.fileId, f.file_name>> : f \in d.files}

(***************************************************************************)
(* C24 - The rename of the bot (a text in state edit_suffix_input_new) and *)
(* POST /update-suffix agree: for the file the chat has chosen and the     *)
(* base name it typed, the bot renames exactly when POST /update-suffix    *)
(* with the url of that file and that base name answers status 1, and      *)
(* then both leave the same url, fileId and file_name on the rows and the  *)
(* same objects in the backends.                                           *)
(***************************************************************************)
C24_SameRenameAlgorithm ==
  [][(BotStep("text", "edit_suffix_input_new") /\ ev'.note # "menu") =>
       \A file \in {f \in db.files : f.id = Before.editing_file_id} :
         LET w == updateSuffixRequest(db, store, file.url, Trim(ev'.arg),
                                      file, "none")
         IN /\ (ev'.note = "renamed") <=> (w.status = 1)
            /\ (w.status = 1) =>
                 (Names(w.db) = Names(db') /\ w.store = store')]_vars

(***************************************************************************)
(* SpecRace: two deliveries of a text message of the same chat handled at  *)
(* the same time while the chat is asked for the new name of its file      *)
(* (handleTelegramWebhook lines 596 and 890-950).  Every await of the      *)
(* handler is a step of its own; the two handlers share the database and   *)
(* the bucket and keep what they have read in their own variables.  `req`  *)
(* holds the two requests in flight.                                       *)
(***************************************************************************)
RaceTexts == {"b", "a.png"}
Handlers == {1, 2}
Local(pc, text, file) == [pc |-> pc, text |-> text, file |-> file]

\* One file of the chat, chosen for renaming: what the dialogue leaves
\* after an upload, `edit_suffix_input` and the name of the file.
RaceDb(storageType) ==
  LET l == loadUserSetting(initAttempt(EmptyDb, "none").db, "c1")
      row == [id |-> 1, url |-> Url("1_a.png"),
              fileId |-> IF storageType = "r2" THEN "1_a.png" ELSE TgFileId(1),
              message_id |-> IF storageType = "r2" THEN -1 ELSE 1,
              created_at |-> 1, file_name |-> "a.png", file_size |-> 1,
              storage_type |-> storageType, category_id |-> 1,
              chat_id |-> "c1", remark |-> NoText]
      d == InsertFile(l.db, row)
  IN UpdateSetting(d, "c1",
       [Setting(d, "c1") EXCEPT !.storage_type = storageType,
                                !.waiting_for = "edit_suffix_input_new",
                                !.editing_file_id = 1])

RaceInit ==
  /\ \E storageType \in {"r2", "telegram"} :
       /\ db = RaceDb(storageType)
       /\ store = IF storageType = "r2"
                  THEN [r2 |-> {"1_a.png"}, tg |-> {}, tgSeq |-> 0]
                  ELSE [r2 |-> {}, tg |-> {1}, tgSeq |-> 1]
  /\ config = [username |-> "", password |-> "",
               enableAuth |-> FALSE, foreignKeys |-> TRUE, bucket |-> TRUE]
  /\ now = 2
  /\ req \in {[stage |-> "race", h |-> [i \in Handlers |-> Local("load", t[i], NoFile)]] :
                t \in [Handlers -> RaceTexts]}
  /\ initedOnce = TRUE
  /\ issued = {}
  /\ ev = Respond("start", 0)

\* The handler moves on; nothing but what the step names changes.
Goto(i, pc) == req' = [req EXCEPT !.h[i].pc = pc]
At(i, pc) == req.stage = "race" /\ req.h[i].pc = pc
raceName(i) ==
  Name(Trim(req.h[i].text), FileExt(getFileName(req.h[i].file.url)))
RaceFrame == UNCHANGED <<config, now, initedOnce, issued>>
               /\ ev' = Respond("race", 200)

\* Line 596: SELECT * FROM user_settings; lines 890 and 951: the branch.
raceLoad(i) ==
  /\ At(i, "load")
  /\ LET us == Setting(db, "c1")
     IN IF us.waiting_for = "edit_suffix_input_new" /\ us.editing_file_id # NULL
        THEN req' = [req EXCEPT !.h[i].pc = "select",
                                !.h[i].file = [id |-> us.editing_file_id]]
        ELSE Goto(i, "done")
  /\ UNCHANGED <<db, store>> /\ RaceFrame
\* Line 894: SELECT * FROM files WHERE id = ?; lines 903-935: the branch.
raceSelect(i) ==
  /\ At(i, "select")
  /\ LET hit == {f \in db.files : f.id = req.h[i].file.id}
     IN IF hit = {} THEN Goto(i, "clear")
        ELSE LET file == CHOOSE f \in hit : TRUE
             IN req' = [req EXCEPT
                  !.h[i].file = file,
                  !.h[i].pc = IF file.storage_type = "r2" /\ config.bucket
                              THEN "get" ELSE "updateUrl"]
  /\ UNCHANGED <<db, store>> /\ RaceFrame
\* Line 911: config.bucket.get(fileId), and reading its body.
raceGet(i) ==
  /\ At(i, "get")
  /\ Goto(i, IF req.h[i].file.fileId \in store.r2 THEN "put" ELSE "updateUrl")
  /\ UNCHANGED <<db, store>> /\ RaceFrame
\* Line 914: storeFile(fileData, newFileName, ...).
racePut(i) ==
  /\ At(i, "put")
  /\ store' = [store EXCEPT !.r2 = @ \cup {raceName(i)}]
  /\ Goto(i, "del")
  /\ UNCHANGED db /\ RaceFrame
\* Line 915: deleteFile(fileId, config).
raceDelete(i) ==
  /\ At(i, "del")
  /\ store' = deleteFile(store, req.h[i].file.fileId, "none")
  /\ Goto(i, "update")
  /\ UNCHANGED db /\ RaceFrame
\* Line 916: UPDATE files SET fileId = ?, url = ?, file_name = ? WHERE id = ?
raceUpdate(i) ==
  /\ At(i, "update")
  /\ db' = [db EXCEPT !.files =
              {IF f.id = req.h[i].file.id
               THEN [f EXCEPT !.fileId = raceName(i), !.url = Url(raceName(i)),
                              !.file_name = raceName(i)]
               ELSE f : f \in @}]
  /\ Goto(i, "clear")
  /\ UNCHANGED store /\ RaceFrame
\* Lines 904, 920: UPDATE files SET url = ?, file_name = ? WHERE id = ?
raceUpdateUrl(i) ==
  /\ At(i, "updateUrl")
  /\ db' = [db EXCEPT !.files =
              {IF f.id = req.h[i].file.id
               THEN [f EXCEPT !.url = Url(raceName(i)),
                              !.file_name = raceName(i)]
               ELSE f : f \in @}]
  /\ Goto(i, "clear")
  /\ UNCHANGED store /\ RaceFrame
\* Line 946: UPDATE user_settings SET waiting_for = NULL, editing_file_id =
\* NULL; then the menu and the answer.
raceClear(i) ==
  /\ At(i, "clear")
  /\ db' = ClearWaitingAndEditing(db, "c1")
  /\ Goto(i, "done")
  /\ UNCHANGED store /\ RaceFrame

RaceLoad == \E i \in Handlers : raceLoad(i)
RaceSelect == \E i \in Handlers : raceSelect(i)
RaceGet == \E i \in Handlers : raceGet(i)
RacePut == \E i \in Handlers : racePut(i)
RaceDelete == \E i \in Handlers : raceDelete(i)
RaceUpdate == \E i \in Handlers : raceUpdate(i)
RaceUpdateUrl == \E i \in Handlers : raceUpdateUrl(i)
RaceClear == \E i \in Handlers : raceClear(i)

RaceNext ==
  \/ RaceLoad \/ RaceSelect \/ RaceGet \/ RacePut \/ RaceDelete
  \/ RaceUpdate \/ RaceUpdateUrl \/ RaceClear

SpecRace == RaceInit /\ [][RaceNext]_vars

RaceDone == req.stage = "race" /\ \A i \in Handlers : req.h[i].pc = "done"
Requested == {Name(Trim(req.h[i].text), "png") : i \in Handlers}

(***************************************************************************)
(* C29 - When both handlers have finished, whatever the interleaving of    *)
(* their steps was, waiting_for and editing_file_id are NULL, the row of   *)
(* the file carries the url and file_name of one of the two requested      *)
(* names, and its fileId names an object the backend holds.                *)
(***************************************************************************)
C29_DuplicateRenameOnly ==
  RaceDone =>
    /\ Setting(db, "c1").waiting_for = NoText
    /\ Setting(db, "c1").editing_file_id = NULL
    /\ \A f \in db.files :
         /\ \E n \in Requested : f.url = Url(n) /\ f.file_name = n
         /\ Resolves(f, store)

(***************************************************************************)
(* SpecCache: the three Maps of `config` (fileCache, buttonCache,          *)
(* menuCache).  fetch() builds `config`, and with it three empty Maps, for *)
(* every request (lines 406-427); the handlers look entries up and store   *)
(* entries in the Maps of their own request.  In this specification        *)
(* `config` carries the Maps as the last request left them.  A Map is a    *)
(* set of [key, value] records.  The clock of SpecCache does not advance   *)
(* by an hour between its requests, so no button or menu entry is older    *)
(* than its TTL (lines 970, 1111); a file entry carries its timestamp.     *)
(***************************************************************************)
has(m, key) == \E e \in m : e.key = key
get(m, key) == (CHOOSE e \in m : e.key = key).value
set(m, key, value) ==
  {e \in m : e.key # key} \cup {[key |-> key, value |-> value]}

\* Variant of freshCaches: the Maps outlive the request (C30).
freshCaches_kept(c) == c
\* Lines 418-423: `fileCache: new Map(), buttonCache: new Map(), menuCache:
\* new Map()`.
freshCaches(c) ==
  [c EXCEPT !.fileCache = {}, !.buttonCache = {}, !.menuCache = {}]

\* sendPanel (lines 965-1015): the menu stored for the chat and its storage
\* type is sent when there is one, else the menu is generated and stored.
sendPanel(c, chat, panel) ==
  IF panel = NoPanel THEN [config |-> c, panel |-> NoPanel]
  ELSE LET cacheKey == <<"menu", chat, panel[1]>>
       IN IF has(c.menuCache, cacheKey)
          THEN [config |-> c, panel |-> get(c.menuCache, cacheKey)]
          ELSE [config |-> [c EXCEPT !.menuCache = set(@, cacheKey, panel)],
                panel |-> panel]

\* The branches of handleCallbackQuery that store their answer (lines 1145,
\* 1169, 1187, 1212, 1223, 1249, 1311).
CachedButtons ==
  {"switch_storage", "list_categories", "create_category", "back_to_panel",
   "r2_stats", "recent_files"} \cup {SetCategoryCb(n) : n \in 1..(MaxCats + 1)}

\* handleCallbackQuery with its cache (lines 1096-1137): the reset of the
\* pending state comes first, then a stored answer is replayed and the
\* handler returns; otherwise the branch of the button runs.
cachedCallbackQuery(c, d, st, chat, us0, cbData) ==
  LET d0 == IF keepsWaiting(us0, cbData) THEN d ELSE ClearWaitingAndEditing(d, chat)
      us == IF keepsWaiting(us0, cbData) THEN us0
            ELSE [us0 EXCEPT !.waiting_for = NoText, !.editing_file_id = NULL]
      cacheKey == <<"button", chat, cbData>>
  IN IF /\ has(c.buttonCache, cacheKey)
        /\ cbData \notin {"delete_file_confirm_1", "delete_file_do_1"}
     THEN LET cachedData == get(c.buttonCache, cacheKey)
              p == sendPanel(c, chat,
                             IF cachedData.sendPanel THEN Panel(us) ELSE NoPanel)
          IN [db |-> d0, store |-> st, status |-> 200, panel |-> p.panel,
              note |-> cachedData.note, config |-> p.config]
     ELSE LET r == handleCallbackQuery(d, st, chat, us0, cbData)
              c1 == IF cbData \in CachedButtons /\ r.note # "error"
                    THEN [c EXCEPT !.buttonCache =
                            set(@, cacheKey, [note |-> r.note,
                                              sendPanel |-> r.panel # NoPanel])]
                    ELSE c
              p == sendPanel(c1, chat, r.panel)
          IN [db |-> r.db, store |-> r.store, status |-> r.status,
              panel |-> p.panel, note |-> r.note, config |-> p.config]

\* handleFileRequest (lines 2211-2319).  `file` is the row the three SELECTs
\* returned; Telegram answers getFile and the download.
findForServe(d, path) ==
  LET byUrl == {f \in d.files : f.url = Url(path)}
      byFileId == {f \in d.files : f.fileId = path}
  IN IF byUrl # {} THEN byUrl
     ELSE IF byFileId # {} THEN byFileId
     ELSE {f \in d.files : f.file_name = path}

fileCacheTTL == 3600000          \* fileCacheTTL: 3600000 (milliseconds)
FileResponse(status, body) == [status |-> status, body |-> body]
\* `cached`: the response is the one stored in the Map.
Answer(c, response) == [config |-> c, response |-> response, cached |-> FALSE]
cacheAndReturnResponse(c, path, response) ==
  Answer([c EXCEPT !.fileCache =
            set(@, <<"file", path>>, [response |-> response, timestamp |-> now])],
         response)

fileRequest(c0, d, st, path, file) ==
  LET cacheKey == <<"file", path>>
      stored == has(c0.fileCache, cacheKey)
      \* an entry past its TTL is deleted (line 2226)
      c == IF stored /\ ~(now - get(c0.fileCache, cacheKey).timestamp < fileCacheTTL)
           THEN [c0 EXCEPT !.fileCache = {e \in @ : e.key # cacheKey}]
           ELSE c0
  IN IF has(c.fileCache, cacheKey)
     THEN [config |-> c, response |-> get(c.fileCache, cacheKey).response,
           cached |-> TRUE]
     ELSE IF c.bucket /\ path \in st.r2
     THEN cacheAndReturnResponse(c, path, FileResponse(200, path))
     ELSE IF file = NoFile
     THEN Answer(c, FileResponse(404, "File not found"))
     ELSE IF file.storage_type = "telegram"
     THEN IF file.fileId = ""
          THEN Answer(c, FileResponse(500, "Missing Telegram file ID"))
          ELSE cacheAndReturnResponse(c, path, FileResponse(200, file.fileId))
     ELSE IF file.storage_type = "r2" /\ c.bucket /\ file.fileId \in st.r2
     THEN cacheAndReturnResponse(c, path, FileResponse(200, file.fileId))
     ELSE IF file.url # "" /\ file.url # Url(path)
     THEN Answer(c, FileResponse(302, file.url))
     ELSE Answer(c, FileResponse(404, "File not available"))

CacheInit ==
  /\ db = initAttempt(EmptyDb, "none").db
  /\ config = [username |-> "", password |-> "",
               enableAuth |-> FALSE, foreignKeys |-> TRUE, bucket |-> TRUE,
               fileCache |-> {}, buttonCache |-> {}, menuCache |-> {}]
  /\ store = [r2 |-> {}, tg |-> {}, tgSeq |-> 0]
  /\ now = 1
  /\ req = Idle
  /\ initedOnce = TRUE
  /\ issued = {}
  /\ ev = Respond("start", 0)

CacheButtons == {"switch_storage", "create_category", "back_to_panel",
                 "list_categories", SetCategoryCb(1), SetCategoryCb(2)}
CacheTexts == {"/start", " A "}
CachePaths == {"1_a.png", "a.png"}

\* A callback query: fetch() and handleTelegramWebhook around the handler.
\* `seen`: the Maps the previous request left held an entry for this button.
CacheCallback ==
  /\ \E cbData \in CacheButtons :
       LET l == loadUserSetting(db, "c1")
           r == cachedCallbackQuery(freshCaches(config), l.db, store, "c1",
                                    l.us, cbData)
       IN /\ db' = r.db
          /\ store' = r.store
          /\ config' = r.config
          /\ ev' = [op |-> "webhook", status |-> r.status, chat |-> "c1",
                    kind |-> "callback", arg |-> cbData,
                    was |-> l.us.waiting_for, note |-> r.note,
                    panel |-> r.panel,
                    seen |-> has(config.buttonCache, <<"button", "c1", cbData>>)]
  /\ UNCHANGED <<now, initedOnce, issued>>
  /\ served("/webhook")

\* A text message; its menu goes through sendPanel.
CacheText ==
  /\ \E text \in CacheTexts :
       LET l == loadUserSetting(db, "c1")
       IN \E file \in Candidates(l.db, "c1", text) :
            LET r == handleText(l.db, store, "c1", l.us, text, file, "none")
                p == sendPanel(freshCaches(config), "c1", r.panel)
            IN /\ db' = r.db
               /\ store' = r.store
               /\ config' = p.config
               /\ ev' = [op |-> "webhook", status |-> r.status, chat |-> "c1",
                         kind |-> "text", arg |-> text,
                         was |-> l.us.waiting_for, note |-> r.note,
                         panel |-> p.panel,
                         seen |-> r.panel # NoPanel /\
                                  has(config.menuCache,
                                      <<"menu", "c1", l.us.storage_type>>)]
  /\ UNCHANGED <<now, initedOnce, issued>>
  /\ served("/webhook")

\* GET /<path>: the default route.
CacheFile ==
  /\ \E path \in CachePaths :
       \E file \in OneOf(findForServe(db, path)) :
         LET r == fileRequest(freshCaches(config), db, store, path, file)
         IN /\ config' = r.config
            /\ ev' = [op |-> "file", status |-> r.response.status,
                      path |-> path, response |-> r.response,
                      seen |-> has(config.fileCache, <<"file", path>>)]
  /\ UNCHANGED <<db, store, now, initedOnce, issued>>
  /\ served("/1_a.png")

\* POST /upload and POST /delete use no Map; their request has its own.
CacheUpload ==
  /\ LET r == uploadRequest(db, store, TRUE, "a.png", 1, 0, "r2", "none")
     IN /\ db' = r.db
        /\ store' = r.store
        /\ now' = IF r.status = 1 THEN now + 1 ELSE now
        /\ ev' = [op |-> "upload", status |-> r.status]
  /\ config' = freshCaches(config)
  /\ UNCHANGED <<initedOnce, issued>>
  /\ served("/upload")

CacheDelete ==
  /\ \E file \in OneOf(findForDelete(db, Url("1_a.png"), "")) :
       LET r == deleteRequest(db, store, Url("1_a.png"), "", file, "none")
       IN /\ db' = r.db
          /\ store' = r.store
          /\ ev' = [op |-> "delete", status |-> r.status]
  /\ config' = freshCaches(config)
  /\ UNCHANGED <<now, initedOnce, issued>>
  /\ served("/delete")

CacheNext ==
  CacheCallback \/ CacheText \/ CacheFile \/ CacheUpload \/ CacheDelete

SpecCache == CacheInit /\ [][CacheNext]_vars

\* The same request handled with three empty Maps.
NoCaches == [config EXCEPT !.fileCache = {}, !.buttonCache = {}, !.menuCache = {}]
CallbackAlike ==
  LET l == loadUserSetting(db, "c1")
      r == cachedCallbackQuery(NoCaches, l.db, store, "c1", l.us, ev'.arg)
  IN /\ db' = r.db
     /\ ev'.note = r.note /\ ev'.panel = r.panel
     /\ db' = handleCallbackQuery(l.db, store, "c1", l.us, ev'.arg).db
TextAlike ==
  LET l == loadUserSetting(db, "c1")
  IN \E file \in Candidates(l.db, "c1", ev'.arg) :
       LET r == handleText(l.db, store, "c1", l.us, ev'.arg, file, "none")
       IN /\ db' = r.db
          /\ ev'.note = r.note
          /\ ev'.panel = sendPanel(NoCaches, "c1", r.panel).panel
FileAlike ==
  \E file \in OneOf(findForServe(db, ev'.path)) :
    ev'.response = fileRequest(NoCaches, db, store, ev'.path, file).response

(***************************************************************************)
(* C30 - The Maps never change a result: every callback, text message and  *)
(* file request leaves the user_settings rows and answers with the content *)
(* that the same request leaves and answers with three empty Maps; a       *)
(* button pressed again, its answer having been stored by the request      *)
(* before, still makes its user_settings write.                            *)
(***************************************************************************)
C30_CachesNeverChangeResults ==
  [][/\ (ev'.op = "webhook" /\ ev'.kind = "callback" => CallbackAlike)
     /\ (ev'.op = "webhook" /\ ev'.kind = "text" => TextAlike)
     /\ (ev'.op = "file" => FileAlike)]_vars

C30_Witness ==
  /\ ev.op = "webhook" /\ ev.kind = "callback" /\ ev.arg = "switch_storage"
  /\ ev.seen /\ ev.note = "switched"
  /\ ev.panel = Panel(Setting(db, "c1"))

(***************************************************************************)
(* SpecStale: the file cache against deletes, renames and the passing of   *)
(* its TTL.  A file is uploaded through the web form, fetched, renamed or  *)
(* deleted (web and bot), and fetched again; an hour may pass in between.  *)
(* `ev` also keeps two sets of url paths: `got`, the paths a GET answered  *)
(* with content, and `gone`, the paths whose file has since been deleted   *)
(* or renamed away.                                                        *)
(***************************************************************************)
StalePaths == KeyNames
Hist(got, gone) == [got |-> got, gone |-> gone]
StartHist == Hist({}, {})
HistOf(e) == IF e.op = "start" THEN StartHist ELSE e.hist
\* The url paths that name a row before the step and none after it.
Left(d1, d2) ==
  {getFileName(f.url) : f \in d1.files} \ {getFileName(f.url) : f \in d2.files}
Moved(d1, d2) ==
  Hist(HistOf(ev).got,
       (HistOf(ev).gone \cup Left(d1, d2)) \ {getFileName(f.url) : f \in d2.files})

\* Lines 766-770: the bot's delete drops the entry `file:<file_name>`.
invalidate(c, file) ==
  LET fileName == IF file.file_name # "" THEN file.file_name
                  ELSE getFileName(file.url)
  IN [c EXCEPT !.fileCache = {e \in @ : e.key # <<"file", fileName>>}]

StUpload ==
  /\ now \in Times
  /\ LET r == uploadRequest(db, store, TRUE, "a.png", 1, 0, "r2", "none")
     IN /\ db' = r.db
        /\ store' = r.store
        /\ now' = IF r.status = 1 THEN now + 1 ELSE now
        /\ ev' = [op |-> "upload", status |-> r.status, hist |-> Moved(db, r.db)]
  /\ config' = freshCaches(config)
  /\ UNCHANGED <<initedOnce, issued>>
  /\ lookedUp("/upload")

StFile ==
  /\ \E path \in StalePaths :
       \E file \in OneOf(findForServe(db, path)) :
         LET r == fileRequest(freshCaches(config), db, store, path, file)
         IN /\ config' = r.config
            /\ ev' = [op |-> "file", status |-> r.response.status,
                      path |-> path, response |-> r.response,
                      cached |-> r.cached,
                      hist |-> Hist(HistOf(ev).got \cup
                                      (IF r.response.status = 200 THEN {path}
                                       ELSE {}),
                                    HistOf(ev).gone)]
  /\ UNCHANGED <<db, store, now, initedOnce, issued>>
  /\ lookedUp("/1_a.png")

StDelete ==
  /\ \E path \in StalePaths :
       \E file \in OneOf(findForDelete(db, Url(path), "")) :
         LET r == deleteRequest(db, store, Url(path), "", file, "none")
         IN /\ db' = r.db
            /\ store' = r.store
            /\ ev' = [op |-> "delete", status |-> r.status,
                      hist |-> Moved(db, r.db)]
  /\ config' = freshCaches(config)
  /\ UNCHANGED <<now, initedOnce, issued>>
  /\ lookedUp("/delete")

StRename ==
  /\ \E path \in StalePaths :
       \E file \in OneOf(findFileRecord(db, Url(path))) :
         LET r == updateSuffixRequest(db, store, Url(path), "b", file, "none")
         IN /\ db' = r.db
            /\ store' = r.store
            /\ ev' = [op |-> "update-suffix", status |-> r.status,
                      hist |-> Moved(db, r.db)]
  /\ config' = freshCaches(config)
  /\ UNCHANGED <<now, initedOnce, issued>>
  /\ lookedUp("/update-suffix")

StAsk ==
  /\ \E cbData \in {"delete_file_input", "edit_suffix_input"} :
       LET l == loadUserSetting(db, "c1")
           r == cachedCallbackQuery(freshCaches(config), l.db, store, "c1",
                                    l.us, cbData)
       IN /\ db' = r.db
          /\ store' = r.store
          /\ config' = r.config
          /\ ev' = [op |-> "webhook", status |-> r.status,
                    hist |-> Moved(db, r.db)]
  /\ UNCHANGED <<now, initedOnce, issued>>
  /\ lookedUp("/webhook")

StText ==
  /\ \E text \in {"a.png", "b"} :
       LET l == loadUserSetting(db, "c1")
       IN \E file \in Candidates(l.db, "c1", text) :
            LET r == handleText(l.db, store, "c1", l.us, text, file, "none")
                c == IF r.note = "deleted"
                     THEN invalidate(freshCaches(config), file)
                     ELSE freshCaches(config)
            IN /\ db' = r.db
               /\ store' = r.store
               /\ config' = sendPanel(c, "c1", r.panel).config
               /\ ev' = [op |-> "webhook", status |-> r.status,
                         hist |-> Moved(db, r.db)]
  /\ UNCHANGED <<now, initedOnce, issued>>
  /\ lookedUp("/webhook")

\* An hour passes.
StHour ==
  /\ now < fileCacheTTL
  /\ now' = now + fileCacheTTL
  /\ ev' = [op |-> "hour", status |-> 0, hist |-> HistOf(ev)]
  /\ UNCHANGED <<db, config, store, req, initedOnce, issued>>

StaleNext ==
  StUpload \/ StFile \/ StDelete \/ StRename \/ StAsk \/ StText \/ StHour

SpecStale == CacheInit /\ [][StaleNext]_vars

(***************************************************************************)
(* C31 - A GET of a url path whose file has been deleted or renamed away   *)
(* is not answered from the file cache, and a response answered from the   *)
(* file cache was stored less than fileCacheTTL ago.                       *)
(***************************************************************************)
C31_NoStaleFile ==
  [][ev'.op = "file" =>
       /\ (ev'.path \in HistOf(ev).gone => ~ev'.cached)
       /\ (ev'.cached =>
             /\ has(config.fileCache, <<"file", ev'.path>>)
             /\ now - get(config.fileCache, <<"file", ev'.path>>).timestamp
                  < fileCacheTTL)]_vars

C31_Witness ==
  /\ ev.op = "file"
  /\ ev.path \in ev.hist.gone /\ ev.path \in ev.hist.got
  /\ ev.status = 404

(***************************************************************************)
(* SpecSend: the sends of an upload to the storage chat (handleMediaUpload *)
(* lines 1487-1560, handleUploadRequest lines 1885-1945).  An image goes   *)
(* out with sendPhoto, a document with sendDocument; `sends` lists the     *)
(* methods called, in order.                                               *)
(***************************************************************************)
SendFiles == {"a.png", "a.pdf"}
SendFaults == {"none", "send", "send_retry", "send_noid"}

\* Variant of sendAttempts: a rejected sendDocument is sent once more (C32).
sendAttempts_again(method, fault) ==
  IF fault \in {"send", "send_retry"}
  THEN <<method, "sendDocument">> ELSE <<method>>
\* `if (!tgResponse.ok) { if (method !== 'sendDocument') { <retry> } else
\* throw }`: the calls made for a first method and a fault.
sendAttempts(method, fault) ==
  IF fault \in {"send", "send_retry"} /\ method # "sendDocument"
  THEN <<method, "sendDocument">> ELSE <<method>>

SendEv(via, ok, fault, method, sends) ==
  [op |-> "send", via |-> via, ok |-> ok, fault |-> fault, method |-> method,
   sends |-> sends]

SendWithin == lookedUp("/upload") /\ store'.tgSeq <= MaxFiles + 1

SendWeb ==
  /\ \E fileName \in SendFiles, fault \in SendFaults :
       LET r == uploadRequest(db, store, TRUE, fileName, 1, 0, "telegram", fault)
       IN /\ db' = r.db
          /\ store' = r.store
          /\ now' = IF r.status = 1 THEN now + 1 ELSE now
          /\ ev' = SendEv("web", r.status = 1, fault, webSendMethod(fileName),
                          sendAttempts(webSendMethod(fileName), fault))
  /\ UNCHANGED <<config, initedOnce, issued>>
  /\ SendWithin

\* A media message: the bucket branch of line 1478 sends nothing.
SendBot ==
  /\ \E fileName \in SendFiles, fault \in SendFaults :
       LET l == loadUserSetting(db, "c1")
           r == handleMediaUpload(l.db, store, "c1", l.us, fileName, 1, fault)
       IN /\ db' = r.db
          /\ store' = r.store
          /\ now' = IF r.note = "uploaded" THEN now + 1 ELSE now
          /\ ev' = SendEv("bot", r.note = "uploaded", fault,
                          sendMethod(fileName),
                          IF l.us.storage_type = "r2" /\ config.bucket
                          THEN <<>>
                          ELSE sendAttempts(sendMethod(fileName), fault))
  /\ UNCHANGED <<config, initedOnce, issued>>
  /\ SendWithin

SendSwitch ==
  /\ webhookCallback("c1", "switch_storage")
  /\ SendWithin

SendNext == SendWeb \/ SendBot \/ SendSwitch

SpecSend == UploadInit /\ [][SendNext]_vars

Rejected == ev'.fault \in {"send", "send_retry"}

(***************************************************************************)
(* C32 - In an upload to the storage chat the first send uses the method   *)
(* chosen from the MIME type.  When it is rejected and was not             *)
(* sendDocument, exactly one more send, a sendDocument, follows; when that *)
(* is rejected too, or the first method was sendDocument, nothing more is  *)
(* sent, no File row is added and no message is stored.                    *)
(***************************************************************************)
C32_OneDocumentFallback ==
  [][ev'.op = "send" /\ ev'.sends # <<>> =>
       /\ ev'.sends[1] = ev'.method
       /\ (Rejected /\ ev'.method # "sendDocument" =>
             ev'.sends = <<ev'.method, "sendDocument">>)
       /\ (~Rejected \/ ev'.method = "sendDocument" => Len(ev'.sends) = 1)
       /\ (ev'.fault = "send_retry" \/ (Rejected /\ ev'.method = "sendDocument") =>
             /\ ~ev'.ok
             /\ db'.files = db.files
             /\ store' = store)
       /\ (ev'.fault = "send" /\ ev'.method # "sendDocument" =>
             /\ ev'.ok
             /\ \E f \in db'.files \ db.files : f.message_id \in store'.tg)]_vars

C32_Witness ==
  /\ ev.op = "send" /\ ev.fault = "send_retry" /\ ~ev.ok
  /\ ev.sends = <<"sendPhoto", "sendDocument">>

(***************************************************************************)
(* SpecRetry: the calls to the chat platform made by setWebhook (lines     *)
(* 354-399) and sendMessage (lines 2556-2583).  `req` holds the call in    *)
(* flight: the responses its fetches got so far (`calls`), the loop        *)
(* counter and the value returned; `ev` is the last call that returned.    *)
(*   "http_error" : response.ok is false                                   *)
(*   "rate_limit" : result.ok is false with error_code 429                 *)
(*   "refused"    : result.ok is false with another error code             *)
(*   "throw"      : fetch (or reading the body) throws                     *)
(***************************************************************************)
\* Variant of webhookMaxRetries: one attempt more (C33).
webhookMaxRetries_four == 3 + 1
webhookMaxRetries == 3           \* setWebhook: const maxRetries = 3
Responses == {"ok", "http_error", "rate_limit", "refused", "throw"}
Call(fn, botToken, retryCount, calls, result) ==
  [stage |-> "call", fn |-> fn, botToken |-> botToken,
   retryCount |-> retryCount, calls |-> calls, result |-> result]
InFlight == req.stage = "call"

RetryInit ==
  /\ db = initAttempt(EmptyDb, "none").db
  /\ config = [username |-> "", password |-> "",
               enableAuth |-> FALSE, foreignKeys |-> TRUE, bucket |-> TRUE]
  /\ store = [r2 |-> {}, tg |-> {}, tgSeq |-> 0]
  /\ now = 1
  /\ req = Idle
  /\ initedOnce = TRUE
  /\ issued = {}
  /\ ev = Respond("start", 0)

RetryFrame == UNCHANGED <<db, config, store, now, initedOnce, issued>>
Returned(c, result) ==
  /\ req' = Idle
  /\ ev' = [op |-> "call", fn |-> c.fn, botToken |-> c.botToken,
            calls |-> c.calls, result |-> result]

\* The function is entered; setWebhook without a token returns true at once
\* (lines 355-358).
CallEnter ==
  /\ req = Idle
  /\ \E fn \in {"setWebhook", "sendMessage"}, botToken \in BOOLEAN :
       IF fn = "setWebhook" /\ ~botToken
       THEN Returned(Call(fn, botToken, 0, <<>>, "true"), "true")
       ELSE req' = Call(fn, botToken, 0, <<>>, "pending") /\ UNCHANGED ev
  /\ RetryFrame

\* One pass of `while (retryCount < maxRetries)`: a fetch and its response.
setWebhookAttempt ==
  /\ InFlight /\ req.fn = "setWebhook"
  /\ req.retryCount < webhookMaxRetries
  /\ \E response \in Responses :
       LET calls == Append(req.calls, response)
           c == [req EXCEPT !.calls = calls]
       IN CASE response = "ok" -> Returned(c, "true")
            [] response = "refused" -> Returned(c, "false")
            [] OTHER -> req' = [c EXCEPT !.retryCount = @ + 1] /\ UNCHANGED ev
  /\ RetryFrame
\* Lines 397-398: the loop is left, `return false`.
setWebhookGiveUp ==
  /\ InFlight /\ req.fn = "setWebhook"
  /\ ~(req.retryCount < webhookMaxRetries)
  /\ Returned(req, "false")
  /\ RetryFrame
\* sendMessage: one fetch; null unless the response is ok.
sendMessageAttempt ==
  /\ InFlight /\ req.fn = "sendMessage"
  /\ \E response \in {"ok", "http_error", "throw"} :
       Returned([req EXCEPT !.calls = Append(@, response)],
                IF response = "ok" THEN "json" ELSE "null")
  /\ RetryFrame

RetryNext ==
  CallEnter \/ setWebhookAttempt \/ setWebhookGiveUp \/ sendMessageAttempt

SpecRetry == RetryInit /\ [][RetryNext]_vars

Failures(calls) == {i \in 1..Len(calls) : calls[i] # "ok"}

(***************************************************************************)
(* C33 - setWebhook and sendMessage make at most 3 calls each; a call in   *)
(* flight that has failed 3 times makes no further attempt; when every     *)
(* attempt failed setWebhook returns false and sendMessage returns null    *)
(* (neither throws); setWebhook without a bot token makes no call.         *)
(***************************************************************************)
C33_BoundedRetries ==
  /\ InFlight =>
       /\ Len(req.calls) <= 3
       /\ req.retryCount = Len(req.calls)
  /\ ev.op = "call" =>
       /\ Len(ev.calls) <= 3
       /\ ev.result \in {"true", "false", "json", "null"}
       /\ (ev.fn = "setWebhook" /\ ~ev.botToken => ev.calls = <<>>)
       /\ (ev.fn = "setWebhook" /\ ev.botToken
             /\ Failures(ev.calls) = 1..Len(ev.calls) => ev.result = "false")
       /\ (ev.fn = "sendMessage" /\ Failures(ev.calls) = 1..Len(ev.calls) =>
             ev.result = "null")

C33_Witness ==
  /\ ev.op = "call" /\ ev.fn = "setWebhook" /\ ev.result = "false"
  /\ Len(ev.calls) = 3 /\ ev.calls[3] = "rate_limit"

(***************************************************************************)
(* C34 - Whenever a bot update ends with the menu, the storage type and    *)
(* the current category the menu shows are the storage_type and the        *)
(* current_category_id of the chat's user_settings row as the update       *)
(* leaves it.                                                              *)
(***************************************************************************)
C34_PanelShowsPersisted ==
  [][ev'.op = "webhook" /\ ev'.panel # NoPanel =>
       ev'.panel = Panel(Setting(db', ev'.chat))]_vars

(***************************************************************************)
(* C35 - In every user_settings row editing_file_id is set exactly while   *)
(* waiting_for = 'edit_suffix_input_new': no bot message or callback       *)
(* leaves an editing_file_id on a chat that waits for nothing or for       *)
(* something else.                                                         *)
(***************************************************************************)
C35_EditingOnlyWhileRenaming ==
  \A u \in db.user_settings :
    u.editing_file_id # NULL <=> u.waiting_for = "edit_suffix_input_new"

(***************************************************************************)
(* C36 - The only values waiting_for takes in a row the webhook handler    *)
(* created are NULL, new_category, delete_file_input,                      *)
(* edit_suffix_input_file and edit_suffix_input_new: 'new_suffix' is never *)
(* written, so the branch of line 646 is never taken.                      *)
(***************************************************************************)
C36_WaitingForValues ==
  \A u \in db.user_settings :
    u.waiting_for \in {NoText, "new_category", "delete_file_input",
                       "edit_suffix_input_file", "edit_suffix_input_new"}

C36_Witness ==
  /\ ev.op = "webhook" /\ ev.kind = "text" /\ ev.note = "found"
  /\ Setting(db, "c1").waiting_for = "edit_suffix_input_new"
  /\ Setting(db, "c1").editing_file_id # NULL

(***************************************************************************)
(* C37 - After every upload, through the web form or the bot, with a       *)
(* bucket bound or not, each files row names the backend that holds its    *)
(* content: an 'r2' row has message_id -1 and a fileId that is a key of    *)
(* the bucket; a 'telegram' row has the id of a message of the storage     *)
(* chat and the file id of that message.                                   *)
(***************************************************************************)
C37_StorageTypeNamesBackend ==
  \A f \in db.files :
    /\ f.storage_type = "r2" =>
         f.message_id = -1 /\ f.fileId \in store.r2
    /\ f.storage_type = "telegram" =>
         f.message_id \in store.tg /\ f.fileId = TgFileId(f.message_id)

(***************************************************************************)
(* C38 - Whatever uploads and renames (web and bot) have been made, no two *)
(* files rows share a url and no two rows of the bucket share a fileId:    *)
(* the content of a file is not reachable from the row of another.         *)
(***************************************************************************)
C38_DistinctUrlsAndKeys ==
  \A f, g \in db.files :
    f.id # g.id =>
      /\ f.url # g.url
      /\ (f.storage_type = "r2" /\ g.storage_type = "r2" => f.fileId # g.fileId)

(***************************************************************************)
(* SpecIgnore: which updates handleTelegramWebhook handles at all (lines   *)
(* 564-595).  An update comes from chat c1 (allowed) or c2 (not allowed),  *)
(* from a private chat, a group or a supergroup, and carries a message     *)
(* (text or media), a callback query, or neither.                          *)
(***************************************************************************)
ChatTypes == {"private", "group", "supergroup"}
UpdateKinds == {"text", "media", "callback", "none"}
isMessage(kind) == kind \in {"text", "media"}

\* Variant of ignoresUpdate: the allow-list is not consulted (C39).
ignoresUpdate_open(chat, chatType, kind) ==
  \/ (isMessage(kind) /\ chatType \in {"group", "supergroup"})
  \/ kind = "none"
\* Lines 567-594: the three early `return new Response('OK')`.
ignoresUpdate(chat, chatType, kind) ==
  \/ (isMessage(kind) /\ chatType \in {"group", "supergroup"})
  \/ kind = "none"
  \/ (AllowedChats # {} /\ chat \notin AllowedChats)

UpdateEv(chat, chatType, kind, arg, note) ==
  [op |-> "webhook", status |-> 200, chat |-> chat, chatType |-> chatType,
   kind |-> kind, arg |-> arg, note |-> note]

webhookUpdate(chat, chatType, kind, arg) ==
  /\ IF ignoresUpdate(chat, chatType, kind)
     THEN /\ UNCHANGED <<db, store, now>>
          /\ ev' = UpdateEv(chat, chatType, kind, arg, "ignored")
     ELSE LET l == loadUserSetting(db, chat)
          IN CASE kind = "text" ->
                    \E file \in Candidates(l.db, chat, arg) :
                      LET r == handleText(l.db, store, chat, l.us, arg, file,
                                          "none")
                      IN /\ db' = r.db /\ store' = r.store /\ UNCHANGED now
                         /\ ev' = UpdateEv(chat, chatType, kind, arg, r.note)
               [] kind = "media" ->
                    LET r == IF pendingReply(l.us, FALSE)
                             THEN handleText(l.db, store, chat, l.us, "",
                                             NoFile, "none")
                             ELSE handleMediaUpload(l.db, store, chat, l.us,
                                                    arg, 1, "none")
                    IN /\ db' = r.db /\ store' = r.store
                       /\ now' = IF r.note = "uploaded" THEN now + 1 ELSE now
                       /\ ev' = UpdateEv(chat, chatType, kind, arg, r.note)
               [] OTHER ->
                    LET r == handleCallbackQuery(l.db, store, chat, l.us, arg)
                    IN /\ db' = r.db /\ store' = r.store /\ UNCHANGED now
                       /\ ev' = UpdateEv(chat, chatType, kind, arg, r.note)
  /\ UNCHANGED <<config, initedOnce, issued>>

IgnText ==
  /\ \E chat \in {"c1", "c2"}, chatType \in ChatTypes, text \in {"/start", " A "} :
       webhookUpdate(chat, chatType, "text", text)
  /\ served("/webhook")
IgnMedia ==
  /\ \E chat \in {"c1", "c2"}, chatType \in ChatTypes :
       webhookUpdate(chat, chatType, "media", "a.png")
  /\ served("/webhook")
IgnCallback ==
  /\ \E chat \in {"c1", "c2"}, chatType \in ChatTypes,
        cbData \in {"create_category", "switch_storage"} :
       webhookUpdate(chat, chatType, "callback", cbData)
  /\ served("/webhook")
IgnOther ==
  /\ \E chat \in {"c1", "c2"}, chatType \in ChatTypes :
       webhookUpdate(chat, chatType, "none", "")
  /\ served("/webhook")

IgnoreNext == IgnText \/ IgnMedia \/ IgnCallback \/ IgnOther

SpecIgnore == FilesInit /\ [][IgnoreNext]_vars

ToIgnore ==
  \/ ev'.chat \notin AllowedChats
  \/ (isMessage(ev'.kind) /\ ev'.chatType \in {"group", "supergroup"})
  \/ ev'.kind = "none"

(***************************************************************************)
(* C39 - An update from a chat outside the allow-list, a message from a    *)
(* group or supergroup, or an update with neither message nor callback     *)
(* query is answered 200 'OK' and changes no row of user_settings,         *)
(* categories or files and no stored object.                               *)
(***************************************************************************)
C39_IgnoredUpdatesChangeNothing ==
  [][ev'.op = "webhook" /\ ToIgnore =>
       /\ ev'.status = 200 /\ ev'.note = "ignored"
       /\ db' = db
       /\ store' = store]_vars

C39_Witness ==
  /\ ev.op = "webhook" /\ ev.chat = "c2" /\ ev.chatType = "private"
  /\ ev.kind = "callback" /\ ev.note = "ignored"
  /\ db.user_settings # {} /\ ~HasSetting(db, "c2")

(***************************************************************************)
(* SpecOwner: the bot's delete and rename dialogues of chat c1 on a        *)
(* database that also holds a file of chat c2 (uploaded while c2 was on    *)
(* the allow-list): a.png, stored in the bucket under 1_a.png.  Chat c1    *)
(* uploads its own a.png and names files by name and by url, the url of    *)
(* the other chat's file included.                                         *)
(***************************************************************************)
OwnerInit ==
  /\ db = LET d == initAttempt(EmptyDb, "none").db
          IN InsertFile(d, [id |-> 1, url |-> Url("1_a.png"),
                            fileId |-> "1_a.png", message_id |-> -1,
                            created_at |-> 1, file_name |-> "a.png",
                            file_size |-> 1, storage_type |-> "r2",
                            category_id |-> 1, chat_id |-> "c2",
                            remark |-> NoText])
  /\ config = [username |-> "", password |-> "",
               enableAuth |-> FALSE, foreignKeys |-> TRUE, bucket |-> TRUE]
  /\ store = [r2 |-> {"1_a.png"}, tg |-> {}, tgSeq |-> 0]
  /\ now = 2
  /\ req = Idle
  /\ initedOnce = TRUE
  /\ issued = {}
  /\ ev = Respond("start", 0)

OwnerTexts == {"a.png", Url("1_a.png"), "b"}
OwnerUpload ==
  /\ webhookMedia("c1", "a.png", 1, TRUE, "none")
  /\ lookedUp("/webhook")
OwnerAsk ==
  /\ \E cbData \in {"delete_file_input", "edit_suffix_input"} :
       webhookCallback("c1", cbData)
  /\ lookedUp("/webhook")
OwnerText ==
  /\ \E text \in OwnerTexts : webhookText("c1", text, "none")
  /\ lookedUp("/webhook")

OwnerNext == OwnerUpload \/ OwnerAsk \/ OwnerText

SpecOwner == OwnerInit /\ [][OwnerNext]_vars

RowsOfOthers(d, chat) == {f \in d.files : f.chat_id # chat}

(***************************************************************************)
(* C40 - A bot update of a chat deletes and modifies files rows of that    *)
(* chat only: the rows whose chat_id is another chat's are the same after  *)
(* the update as before it.                                                *)
(***************************************************************************)
C40_OtherChatsRowsUntouched ==
  [][ev'.op = "webhook" =>
       RowsOfOthers(db', ev'.chat) = RowsOfOthers(db, ev'.chat)]_vars

C40_Witness ==
  /\ ev.op = "webhook" /\ ev.kind = "text" /\ ev.chat = "c1"
  /\ ev.was = "delete_file_input" /\ ev.arg = "a.png" /\ ev.note = "deleted"
  /\ RowsOfOthers(db, "c1") # {}
  /\ \A f \in db.files : f.chat_id = "c2"

====
